---- MODULE Spec2Model ----
(***************************************************************************)
(* A model of the myairzone client library: the file cache                 *)
(* (src/src/airzone_cache.py), cache-key derivation and the read / write   *)
(* paths of the two API clients (src/src/client.py, the split client, and  *)
(* src/src/airzone_client.py, the flat client).                            *)
(*                                                                         *)
(* Three specifications share the variables:                               *)
(*   SpecCache  the cache store driven directly (set/get/invalidate/clock) *)
(*   SpecKey    the key derivation applied to request shapes               *)
(*   Spec       a client object issuing reads and writes to a device       *)
(***************************************************************************)
EXTENDS Integers, Sequences, FiniteSets, TLC

VARIABLES
    files,      \* the cache directory: path -> [mtime, text]
    now,        \* time.time(), in whole ticks
    max_age,    \* AirzoneCache.max_age
    cop,        \* the last direct cache operation and what it returned
    written,    \* history: key -> [data, at] of the last set not followed by an invalidate
    req,        \* SpecKey: the (endpoint, data) pair under derivation
    derived,    \* SpecKey: the key each client derived for req
    impl,       \* which client module the client object comes from
    use_cache,  \* AirzoneClient.use_cache
    device,     \* the document the device currently answers reads with
    family,     \* the endpoint family this run of the program works on
    call,       \* the last client call: method, request, force_refresh
    http,       \* the HTTP requests the last client call issued, in order
    answer,     \* what the device answered the last client call's request(s)
    before,     \* what cache.get gave, just before the last client call, for each key it concerns
    outcome,    \* how the last client call ended: returned a document, or raised
    scenario,   \* SpecZone / SpecCli: the zone the device holds and how it answers
    dev_zone,   \* the zone object as the device holds it now
    zone_data,  \* AirzoneZone._data, the entity's local snapshot
    assign,     \* the last operation on the entity: setter name and value assigned
    reread,     \* what the device answered the read that followed the write, if any
    system,     \* SpecCli: the AirzoneSystem entity: its system_id and its zones
    found,      \* SpecCli: what AirzoneSystem.get_zone returned
    exit_code,  \* SpecCli: what main() returned
    backup,     \* SpecBackup: the backup file and the last AirzoneBackup call
    host        \* SpecHosts: the host of the client that made the last call

vars == <<files, now, max_age, cop, written, req, derived, impl, use_cache,
          device, family, call, http, answer, before, outcome,
          scenario, dev_zone, zone_data, assign, reread, system, found, exit_code,
          backup, host>>

cacheVars  == <<files, now, max_age, cop, written>>
keyVars    == <<req, derived>>
clientVars == <<impl, use_cache, device, family, call, http, answer, before, outcome>>
entityVars == <<scenario, dev_zone, zone_data, assign, reread, system, found, exit_code,
                backup, host>>

(***************************************************************************)
(* Bounds of the model.                                                    *)
(***************************************************************************)
MaxTime == 1        \* the clock runs 0..MaxTime
MaxClock == 2       \* SpecFresh: the clock runs 0..MaxClock
MaxAge  == 1        \* max_age is drawn from 0..MaxAge

(***************************************************************************)
(* Python values that are handed to the cache or come back from the        *)
(* device.  A document is null, a list of scalars, or a dict of scalars    *)
(* (insertion-ordered, as Python dicts are); "object" stands for a Python  *)
(* value json.dump cannot serialise (a set, say).                          *)
(***************************************************************************)
IntVal(n) == [t |-> "int", i |-> n, s |-> ""]
StrVal(x) == [t |-> "str", i |-> 0, s |-> x]
Item(k, v) == [k |-> k, v |-> v]

None          == [kind |-> "null", items |-> <<>>]
EmptyDict     == [kind |-> "dict", items |-> <<>>]
EmptyList     == [kind |-> "list", items |-> <<>>]
Unserializable == [kind |-> "object", items |-> <<>>]
JsonError     == [kind |-> "error", items |-> <<>>]

DictOf(items) == [kind |-> "dict", items |-> items]
ListOf(vals)  == [kind |-> "list", items |-> [n \in 1..Len(vals) |-> Item("", vals[n])]]

\* bool(x) of a document: None, {} and [] are falsy.
Truthy(d) == d.kind \in {"dict", "list", "object"} /\ (d.kind = "object" \/ Len(d.items) > 0)

IsDict(d) == d.kind = "dict"

HasKey(d, k) == \E n \in 1..Len(d.items) : d.items[n].k = k

\* d[k] = v on a dict: replaces the value in place, or appends the key.
DictSet(d, k, v) ==
    IF HasKey(d, k)
    THEN [d EXCEPT !.items = [n \in 1..Len(d.items) |->
                                 IF d.items[n].k = k THEN Item(k, v) ELSE d.items[n]]]
    ELSE [d EXCEPT !.items = Append(d.items, Item(k, v))]

\* == of two documents: dicts compare regardless of insertion order.
DocEq(a, b) ==
    /\ a.kind = b.kind
    /\ IF a.kind = "dict"
       THEN {a.items[n] : n \in 1..Len(a.items)} = {b.items[n] : n \in 1..Len(b.items)}
       ELSE a.items = b.items

(***************************************************************************)
(* json.dump / json.load.  The text of a file is a sequence of tokens;     *)
(* indent=2 only adds white space between them.                            *)
(***************************************************************************)
JsonStrings == {"", "name", "value", "Test System", "ws_type", "ws_az", "ip_address",
                "port", "test-host", "data", "systems", "webserver", "zones", "metadata",
                "other-host"}
JsonNumbers == {0, 1, 2, 3, 4, 42, 3000}

Quoted(x) == "\"" \o x \o "\""

\* A value inside a document may itself be a list or an object (the device
\* answers {"data": [{...zone...}]}).  Such a value is a tree: a list node
\* holds its elements, an object node its fields (name -> tree).
JsonList(elems)    == [t |-> "list", i |-> 0, s |-> "", elems |-> elems]
JsonObject(fields) == [t |-> "dict", i |-> 0, s |-> "", fields |-> fields]

\* the order in which the fields of an object are written
FieldOrder == <<"systemID", "zoneID", "id", "on", "setpoint", "mode", "modes", "speed",
                "speeds", "speed_values", "sleep", "minTemp", "maxTemp", "coolmintemp",
                "coolmaxtemp", "heatmintemp", "heatmaxtemp", "temp_step",
                "slats_vertical", "slats_horizontal", "slats_vswing", "slats_hswing",
                "aq_mode", "iaq_mode_vent", "data", "systems", "ws_type", "ip_address",
                "created", "host", "port", "version", "backup_type">>

\* the text of a nested value, spelled as one token of the file
RECURSIVE TreeText(_)
RECURSIVE ElemsText(_, _)
RECURSIVE FieldsText(_, _, _)
ElemsText(elems, n) ==
    IF n > Len(elems) THEN ""
    ELSE (IF n > 1 THEN "," ELSE "") \o TreeText(elems[n]) \o ElemsText(elems, n + 1)

FieldsText(fields, n, first) ==
    IF n > Len(FieldOrder) THEN ""
    ELSE IF FieldOrder[n] \in DOMAIN fields
    THEN (IF first THEN "" ELSE ",") \o Quoted(FieldOrder[n]) \o ":"
            \o TreeText(fields[FieldOrder[n]]) \o FieldsText(fields, n + 1, FALSE)
    ELSE FieldsText(fields, n + 1, first)

TreeText(v) ==
    CASE v.t = "int"  -> ToString(v.i)
      [] v.t = "str"  -> Quoted(v.s)
      [] v.t = "list" -> "[" \o ElemsText(v.elems, 1) \o "]"
      [] v.t = "dict" -> "{" \o FieldsText(v.fields, 1, TRUE) \o "}"

\* json.dump that writes a string without its quotation marks
ScalarTextUnquoted(v) == IF v.t = "int" THEN ToString(v.i) ELSE v.s

ScalarText(v) ==
    IF v.t = "int" THEN ToString(v.i)
    ELSE IF v.t = "str" THEN Quoted(v.s)
    ELSE TreeText(v)

RECURSIVE ListText(_, _)
ListText(items, n) ==
    IF n > Len(items) THEN <<>>
    ELSE (IF n > 1 THEN <<",">> ELSE <<>>)
         \o <<ScalarText(items[n].v)>> \o ListText(items, n + 1)

RECURSIVE DictText(_, _)
DictText(items, n) ==
    IF n > Len(items) THEN <<>>
    ELSE (IF n > 1 THEN <<",">> ELSE <<>>)
         \o <<Quoted(items[n].k), ":", ScalarText(items[n].v)>> \o DictText(items, n + 1)

CanDump(d) == d.kind \in {"null", "dict", "list"}

JsonDump(d) ==
    CASE d.kind = "null" -> <<"null">>
      [] d.kind = "list" -> <<"[">> \o ListText(d.items, 1) \o <<"]">>
      [] d.kind = "dict" -> <<"{">> \o DictText(d.items, 1) \o <<"}">>
      [] OTHER           -> <<>>

(***************************************************************************)
(* The zone objects a device reports.  A zone is an object of integer      *)
(* fields and lists of integers (temperatures in whole degrees).           *)
(***************************************************************************)
IntList(ns) == JsonList([n \in 1..Len(ns) |-> IntVal(ns[n])])

\* the zone of test_zone_temperature_control: heating, setpoint 21
HeatingZone ==
    "systemID" :> IntVal(1) @@ "zoneID" :> IntVal(2) @@ "on" :> IntVal(1)
        @@ "setpoint" :> IntVal(21) @@ "mode" :> IntVal(3)

\* a cooling zone that reports its modes, its limits and its fan speeds
CoolingZone ==
    "systemID" :> IntVal(1) @@ "zoneID" :> IntVal(2) @@ "on" :> IntVal(0)
        @@ "setpoint" :> IntVal(20) @@ "mode" :> IntVal(2) @@ "modes" :> IntList(<<2, 3>>)
        @@ "coolmintemp" :> IntVal(18) @@ "coolmaxtemp" :> IntVal(26)
        @@ "heatmintemp" :> IntVal(15) @@ "heatmaxtemp" :> IntVal(22)
        @@ "speed" :> IntVal(1) @@ "speed_values" :> IntList(<<1, 2>>)

\* a ventilating zone: general limits with a step, a highest fan speed
VentilationZone ==
    "systemID" :> IntVal(1) @@ "zoneID" :> IntVal(2) @@ "setpoint" :> IntVal(20)
        @@ "mode" :> IntVal(4) @@ "minTemp" :> IntVal(16) @@ "maxTemp" :> IntVal(24)
        @@ "temp_step" :> IntVal(2) @@ "speed" :> IntVal(0) @@ "speeds" :> IntVal(3)

\* a zone that reports nothing but its identity and its mode
BareZone ==
    "systemID" :> IntVal(1) @@ "zoneID" :> IntVal(2) @@ "mode" :> IntVal(4)

\* a zone that reports an empty list of modes
ModelessZone ==
    "systemID" :> IntVal(1) @@ "zoneID" :> IntVal(2) @@ "mode" :> IntVal(4)
        @@ "modes" :> IntList(<<>>)

ZoneConfigs == {HeatingZone, CoolingZone, VentilationZone, BareZone, ModelessZone}

\* the field each setter writes
FieldOf(name) ==
    CASE name = "on"               -> "on"
      [] name = "setpoint"         -> "setpoint"
      [] name = "mode"             -> "mode"
      [] name = "fan_speed"        -> "speed"
      [] name = "sleep_timer"      -> "sleep"
      [] name = "slats_vertical"   -> "slats_vertical"
      [] name = "slats_horizontal" -> "slats_horizontal"
      [] name = "vertical_swing"   -> "slats_vswing"
      [] name = "horizontal_swing" -> "slats_hswing"
      [] name = "ventilation_mode" -> "aq_mode"

\* the values the callers assign
SetterValues(name) ==
    CASE name = "on"               -> {0, 1}
      [] name = "setpoint"         -> {10, 17, 20, 23, 31}
      [] name = "mode"             -> {2, 3, 4}
      [] name = "fan_speed"        -> {0, 2, 5}
      [] name = "sleep_timer"      -> {-1, 30, 1441}
      [] name = "slats_vertical"   -> {1}
      [] name = "slats_horizontal" -> {1}
      [] name = "vertical_swing"   -> {0, 1}
      [] name = "horizontal_swing" -> {0, 1}
      [] name = "ventilation_mode" -> {1, 3}

\* row[field] = value
SetField(row, field, value) ==
    [f \in DOMAIN row \cup {field} |-> IF f = field THEN IntVal(value) ELSE row[f]]

\* the zone of the IAQ endpoint carries the ventilation mode as iaq_mode_vent
WireField(im, name) ==
    IF name = "ventilation_mode" /\ im = "flat" THEN "iaq_mode_vent" ELSE FieldOf(name)

\* the runs: which zone the device holds, which attribute is assigned, and
\* how the device wraps the zone in its answer to get_zone:
\* {"data": [zone]}, {"data": zone} (as the tests' device does),
\* {"data": []} (no such zone) or an object without "data"
Scenario(config, setter, shape) == [config |-> config, setter |-> setter, shape |-> shape]

Scenarios ==
    {Scenario(HeatingZone, "setpoint", "dict"),
     Scenario(HeatingZone, "setpoint", "list"),
     Scenario(CoolingZone, "setpoint", "list"),
     Scenario(VentilationZone, "setpoint", "list"),
     Scenario(BareZone, "setpoint", "list"),
     Scenario(BareZone, "setpoint", "empty"),
     Scenario(CoolingZone, "mode", "list"),
     Scenario(BareZone, "mode", "list"),
     Scenario(ModelessZone, "mode", "list"),
     Scenario(CoolingZone, "fan_speed", "list"),
     Scenario(VentilationZone, "fan_speed", "list"),
     Scenario(BareZone, "fan_speed", "nodata"),
     Scenario(BareZone, "sleep_timer", "list"),
     Scenario(HeatingZone, "on", "list"),
     Scenario(BareZone, "slats_vertical", "list"),
     Scenario(BareZone, "slats_horizontal", "list"),
     Scenario(BareZone, "vertical_swing", "list"),
     Scenario(BareZone, "horizontal_swing", "list"),
     Scenario(BareZone, "ventilation_mode", "list")}

\* every zone object the device of a run can come to report: the
\* configuration, or the configuration with the attribute written
RowsOf(sc) ==
    {sc.config} \cup {SetField(sc.config, WireField(im, sc.setter), v) :
                         im \in {"client", "flat"}, v \in SetterValues(sc.setter)}

ZoneRows == UNION {RowsOf(sc) : sc \in Scenarios}

\* the answer to get_all_zones: one system holding the zones given
AllZonesValue(rows) == JsonList(<<JsonObject("data" :> JsonList(rows))>>)

\* the answer to get_all_systems: the value of "systems"
SystemsValue == JsonList(<<JsonObject("systemID" :> IntVal(1))>>)

\* what a run's device can report about its zone: the zone object itself,
\* the zone in a list, and the zone in the answer to get_all_zones
ValuesOf(sc) == UNION {{JsonObject(r), JsonList(<<JsonObject(r)>>), AllZonesValue(<<JsonObject(r)>>)} : r \in RowsOf(sc)}

(***************************************************************************)
(* The sections of a backup file (src/src/airzone_backup.py): the          *)
(* documents get_webserver_info, get_all_systems and get_all_zones         *)
(* returned, and the metadata.                                             *)
(***************************************************************************)
Host == "test-host"
Port == 3000

\* the zones a device of the backup runs can hold: one zone, on or off, its
\* setpoint 21 or 23
BackupRows == {SetField(SetField(HeatingZone, "on", o), "setpoint", t) : o \in {0, 1}, t \in {21, 23}}

WebserverSection == JsonObject("ws_type" :> StrVal("ws_az"))

\* the same as get_webserver_info of airzone_client.py returns it
EnhancedSection ==
    JsonObject("ws_type" :> StrVal("ws_az") @@ "ip_address" :> StrVal(Host)
                   @@ "port" :> IntVal(Port))

SystemsSection == JsonObject("systems" :> SystemsValue)

ZonesSection(rows) == JsonObject("systems" :> AllZonesValue(rows))

\* cache_data["metadata"] of create_backup
Metadata(h, p, version) ==
    JsonObject("created" :> StrVal("2024-01-01T00:00:00") @@ "host" :> StrVal(h)
                   @@ "port" :> IntVal(p) @@ "version" :> version
                   @@ "backup_type" :> StrVal("full"))

\* f without the field k
Without(f, k) == [x \in DOMAIN f \ {k} |-> f[x]]

WebserverSections == {WebserverSection, EnhancedSection}
SystemsSections   == {SystemsSection, JsonObject(<<>>), JsonList(<<StrVal("systems")>>)}
ZonesSections     ==
    {ZonesSection(<<JsonObject(r)>>) : r \in BackupRows}
        \cup {ZonesSection(<<>>), JsonObject("data" :> JsonList(<<JsonObject(HeatingZone)>>))}
MetadataSections  ==
    {Metadata(Host, Port, StrVal("Unknown")),
     JsonObject(Without(Metadata(Host, Port, StrVal("Unknown")).fields, "host")),
     JsonObject(Without(Metadata(Host, Port, StrVal("Unknown")).fields, "port")),
     JsonList(<<StrVal("host"), StrVal("port")>>),
     StrVal(Host), IntVal(Port)}

BackupValues ==
    WebserverSections \cup SystemsSections \cup ZonesSections
        \cup {m \in MetadataSections : m.t \in {"dict", "list"}}
        \cup {AllZonesValue(<<JsonObject(r)>>) : r \in BackupRows}

\* SpecSync: the zones the device holds, as (systemID, zoneID)
DevZones == {<<1, 1>>, <<1, 2>>}

\* the setpoints a zone of SpecSync takes
Setpoints == {21, 23}

\* the zone k as the device reports it when its setpoint is v
SyncRow(k, v) == JsonObject("systemID" :> IntVal(k[1]) @@ "zoneID" :> IntVal(k[2]) @@ "setpoint" :> IntVal(v))

\* the zones of the system, in the order of their zone IDs, dev giving the setpoints
SystemRows(dev) == JsonList(<<SyncRow(<<1, 1>>, dev[<<1, 1>>]), SyncRow(<<1, 2>>, dev[<<1, 2>>])>>)

\* every system with its zones
AllRows(dev) == JsonList(<<JsonObject("data" :> SystemRows(dev))>>)

SyncValues ==
    {JsonList(<<SyncRow(k, v)>>) : k \in DevZones, v \in Setpoints}
        \cup UNION {{SystemRows(dev), AllRows(dev)} : dev \in [DevZones -> Setpoints]}

\* SpecSystem: the zones an "all zones" aggregate may list: of system 1 under
\* zoneID or under id, of system 2, without an ID, without a systemID
ListedRows ==
    {JsonObject("systemID" :> IntVal(1) @@ "zoneID" :> IntVal(1)),
     JsonObject("systemID" :> IntVal(1) @@ "id" :> IntVal(2)),
     JsonObject("systemID" :> IntVal(2) @@ "zoneID" :> IntVal(1)),
     JsonObject("systemID" :> IntVal(2) @@ "id" :> IntVal(2)),
     JsonObject("systemID" :> IntVal(1)),
     JsonObject("zoneID" :> IntVal(1))}

\* the lists of at most two of them
RowPairs == {p \in ListedRows \X ListedRows : p[1] # p[2]}

RowLists == {<<>>} \cup {<<r>> : r \in ListedRows} \cup RowPairs

\* the values of "systems" in an aggregate: one entry with the zones, or two
\* entries with one zone each, or an entry without "data"
Aggregates ==
    {AllZonesValue(rows) : rows \in RowLists}
        \cup {JsonList(<<JsonObject("data" :> JsonList(<<p[1]>>)), JsonObject("data" :> JsonList(<<p[2]>>))>>) : p \in RowPairs}
        \cup {JsonList(<<JsonObject("id" :> IntVal(1))>>)}

NestedValues == {JsonList(<<>>), AllZonesValue(<<>>), SystemsValue} \cup UNION {ValuesOf(sc) : sc \in Scenarios} \cup BackupValues \cup SyncValues \cup Aggregates

BadScalar == [t |-> "bad", i |-> 0, s |-> ""]

\* the scanner's view of a token: which string, or which number, it spells
StringSpelled == [tok \in {Quoted(x) : x \in JsonStrings} |->
                     CHOOSE x \in JsonStrings : Quoted(x) = tok]
NumberSpelled == [tok \in {ToString(n) : n \in JsonNumbers} |->
                     CHOOSE n \in JsonNumbers : ToString(n) = tok]
\* the nested values by their spelling
NestedSpelled == {<<TreeText(v), v>> : v \in NestedValues}

Spelled(hits) == IF hits = {} THEN BadScalar ELSE (CHOOSE p \in hits : TRUE)[2]

ParseString(tok) == IF tok \in DOMAIN StringSpelled THEN StringSpelled[tok] ELSE "?"

ParseScalar(tok) ==
    IF tok \in DOMAIN StringSpelled THEN StrVal(StringSpelled[tok])
    ELSE IF tok \in DOMAIN NumberSpelled THEN IntVal(NumberSpelled[tok])
    ELSE Spelled({p \in NestedSpelled : p[1] = tok})

LoadList(text, n, items) ==
    IF /\ Len(text) = 2 * n + 1
       /\ \A j \in 1..n : items[j].v # BadScalar
       /\ \A c \in 1..(n - 1) : text[2 * c + 1] = ","
    THEN [kind |-> "list", items |-> items]
    ELSE JsonError

LoadDict(text, n, items) ==
    IF /\ Len(text) = 4 * n + 1
       /\ \A j \in 1..n : /\ items[j].v # BadScalar
                          /\ Quoted(items[j].k) = text[4 * j - 2]
                          /\ text[4 * j - 1] = ":"
       /\ \A c \in 1..(n - 1) : text[4 * c + 1] = ","
    THEN [kind |-> "dict", items |-> items]
    ELSE JsonError

JsonLoad(text) ==
    IF text = <<"null">> THEN None
    ELSE IF Len(text) < 2 THEN JsonError
    ELSE IF text = <<"[", "]">> THEN EmptyList
    ELSE IF text = <<"{", "}">> THEN EmptyDict
    ELSE IF text[1] = "[" /\ text[Len(text)] = "]"
    THEN LoadList(text, Len(text) \div 2, [j \in 1..(Len(text) \div 2) |-> Item("", ParseScalar(text[2 * j]))])
    ELSE IF text[1] = "{" /\ text[Len(text)] = "}"
    THEN LoadDict(text, Len(text) \div 4, [j \in 1..(Len(text) \div 4) |-> Item(ParseString(text[4 * j - 2]), ParseScalar(text[4 * j]))])
    ELSE JsonError

(***************************************************************************)
(* AirzoneCache (src/src/airzone_cache.py).  Each operator is the method   *)
(* as a function of the directory; the ...Files operators give the         *)
(* directory afterwards, the others the value returned.                    *)
(***************************************************************************)
_get_cache_path(key) == <<key, ".json">>

FileAge(fs, t, key) == t - fs[_get_cache_path(key)].mtime

\* the expiry test with >= for >: an entry of age max_age counts as expired
ExpiredAtMaxAge(age, maxAge) == age >= maxAge

Expired(age, maxAge) == age > maxAge

\* get, the except clause around json.load
CacheLoaded(data) == IF data = JsonError THEN None ELSE data

CacheGet(fs, maxAge, t, key) ==
    IF _get_cache_path(key) \notin DOMAIN fs THEN None
    ELSE IF Expired(FileAge(fs, t, key), maxAge) THEN None
    ELSE CacheLoaded(JsonLoad(fs[_get_cache_path(key)].text))

\* open(path, "w") truncates the file before json.dump runs, so a value that
\* cannot be dumped leaves an empty file behind and set answers False.
CacheSetFiles(fs, t, key, data) ==
    [p \in DOMAIN fs \cup {_get_cache_path(key)} |->
        IF p = _get_cache_path(key)
        THEN [mtime |-> t, text |-> IF CanDump(data) THEN JsonDump(data) ELSE <<>>]
        ELSE fs[p]]

CacheSetResult(data) == CanDump(data)

\* invalidate that clears the directory instead of deleting one file
CacheInvalidateEveryFile(fs, key) == [p \in {} |-> fs[p]]

CacheInvalidateFiles(fs, key) ==
    [p \in DOMAIN fs \ {_get_cache_path(key)} |-> fs[p]]

CacheInvalidateResult(fs, key) == TRUE

EndsWithJson(p) == p[Len(p)] = ".json"

CacheInvalidateAllFiles(fs) ==
    [p \in {q \in DOMAIN fs : ~EndsWithJson(q)} |-> fs[p]]

NoFiles == [p \in {} |-> [mtime |-> 0, text |-> <<>>]]

(***************************************************************************)
(* Requests.  A request is an endpoint and a body; the body is None or a   *)
(* dict whose keys are among systemID, zoneID, iaqsensorid and the         *)
(* parameters of a write.  Absent marks a key the dict does not hold.      *)
(***************************************************************************)
Absent == -1
NoKey  == ""        \* a derived key of None: `if cache_key:` takes None as false

AllSystems == 127   \* systemID of the "all systems" query
AllZones   == 0     \* systemID and zoneID of the "all zones" query

Request(endpoint, none, systemID, zoneID, iaqsensorid, params) ==
    [endpoint |-> endpoint, none |-> none, systemID |-> systemID, zoneID |-> zoneID,
     iaqsensorid |-> iaqsensorid, params |-> params]

NoBody(endpoint) == Request(endpoint, TRUE, Absent, Absent, Absent, EmptyDict)

\* bool(data): None and {} are false
BodyTruthy(r) ==
    /\ ~r.none
    /\ \/ r.systemID # Absent \/ r.zoneID # Absent \/ r.iaqsensorid # Absent
       \/ Len(r.params.items) > 0

\* frozenset(data.items()) == frozenset(pairs), for the bodies of CACHE_KEY_PATTERNS
BodyIs(r, systemID, zoneID) ==
    /\ ~r.none
    /\ r.systemID = systemID
    /\ r.zoneID = zoneID
    /\ r.iaqsensorid = Absent
    /\ Len(r.params.items) = 0

\* src/src/models.py CACHE_KEY_PATTERNS, looked up with
\* (endpoint, frozenset(data.items()) if data else None)
CACHE_KEY_PATTERNS(r) ==
    CASE r.endpoint = "version" /\ ~BodyTruthy(r)                 -> "version"
      [] r.endpoint = "webserver" /\ ~BodyTruthy(r)               -> "webserver"
      [] r.endpoint = "hvac" /\ BodyIs(r, AllSystems, Absent)     -> "systems"
      [] r.endpoint = "hvac" /\ BodyIs(r, AllZones, AllZones)     -> "zones"
      [] r.endpoint = "iaq" /\ BodyIs(r, AllSystems, Absent)      -> "iaq_sensors"
      [] OTHER                                                    -> NoKey

\* the zone key with its two identifiers in the wrong order
ZoneKeySwapped(s, z) == "zone_" \o ToString(z) \o "_" \o ToString(s)

ZoneKey(s, z)      == "zone_" \o ToString(s) \o "_" \o ToString(z)
SystemKey(s)       == "system_" \o ToString(s)
IaqSensorKey(s, i) == "iaq_sensor_" \o ToString(s) \o "_" \o ToString(i)
IaqSystemKey(s)    == "iaq_system_" \o ToString(s)

\* src/src/client.py AirzoneClient._generate_cache_key
_generate_cache_key(r) ==
    IF CACHE_KEY_PATTERNS(r) # NoKey THEN CACHE_KEY_PATTERNS(r)
    ELSE IF r.endpoint = "hvac" /\ BodyTruthy(r)
    THEN IF r.zoneID # Absent /\ r.systemID # Absent
         THEN IF r.systemID = AllSystems THEN "systems"
              ELSE IF r.systemID = AllZones /\ r.zoneID = AllZones THEN "zones"
              ELSE ZoneKey(r.systemID, r.zoneID)
         ELSE IF r.systemID # Absent
         THEN IF r.systemID = AllSystems THEN "systems" ELSE SystemKey(r.systemID)
         ELSE NoKey
    ELSE IF r.endpoint = "iaq" /\ BodyTruthy(r)
    THEN IF r.iaqsensorid # Absent /\ r.systemID # Absent
         THEN IF r.systemID = AllSystems THEN "iaq_sensors"
              ELSE IaqSensorKey(r.systemID, r.iaqsensorid)
         ELSE IF r.systemID # Absent
         THEN IF r.systemID = AllSystems THEN "iaq_sensors" ELSE IaqSystemKey(r.systemID)
         ELSE NoKey
    ELSE IF r.endpoint \in {"version", "webserver"} THEN r.endpoint
    ELSE NoKey

\* src/src/airzone_client.py AirzoneClient._generate_cache_key
Flat_generate_cache_key(r) ==
    IF r.endpoint = "version" THEN "version"
    ELSE IF r.endpoint = "webserver" THEN "webserver"
    ELSE IF r.endpoint = "hvac"
    THEN IF r.none THEN "hvac"
         ELSE IF r.systemID # Absent /\ r.zoneID # Absent
         THEN IF r.systemID = AllSystems THEN "systems"
              ELSE IF r.systemID = AllZones /\ r.zoneID = AllZones THEN "zones"
              ELSE ZoneKey(r.systemID, r.zoneID)
         ELSE IF r.systemID # Absent
         THEN IF r.systemID = AllSystems THEN "systems" ELSE SystemKey(r.systemID)
         ELSE NoKey
    ELSE IF r.endpoint = "iaq"
    THEN IF r.none THEN "iaq"
         ELSE IF r.systemID # Absent /\ r.iaqsensorid # Absent
         THEN IF r.systemID = AllSystems THEN "iaq_sensors"
              ELSE IaqSensorKey(r.systemID, r.iaqsensorid)
         ELSE IF r.systemID # Absent
         THEN IF r.systemID = AllSystems THEN "iaq_sensors" ELSE IaqSystemKey(r.systemID)
         ELSE NoKey
    ELSE NoKey

\* the derivation of the client module in use
KeyOf(im, r) == IF im = "client" THEN _generate_cache_key(r) ELSE Flat_generate_cache_key(r)

(***************************************************************************)
(* SpecCache: the cache store used directly, as                            *)
(* src/tests/test_implementation_resilient.py::test_cache_contract does.   *)
(***************************************************************************)
CacheKeys == {"test_key", "updated_key"}

TestData == DictOf(<<Item("name", StrVal("Test System")), Item("value", IntVal(42))>>)
TestList == ListOf(<<IntVal(1), StrVal("name")>>)

CacheDocs == {None, EmptyDict, TestData, TestList, Unserializable}

NoCacheOp == [op |-> "none", key |-> "", data |-> None, ok |-> TRUE,
              value |-> None, prev |-> None, at |-> 0]

NoWritten == [k \in {} |-> [data |-> None, at |-> 0]]

NoRequest == NoBody("")

NoCall == [op |-> "none", request |-> NoRequest, force_refresh |-> FALSE]

NoAnswer == [status |-> -1, doc |-> None]

NoBefore == [k \in {} |-> None]

NoOutcome == [kind |-> "none", doc |-> None]

NoDerived == [client |-> NoKey, flat |-> NoKey]

KeyIdle == /\ req = NoRequest
           /\ derived = NoDerived

ClientIdle == /\ impl = "client"
              /\ use_cache = FALSE
              /\ device = None
              /\ family = "none"
              /\ call = NoCall
              /\ http = <<>>
              /\ answer = NoAnswer
              /\ before = NoBefore
              /\ outcome = NoOutcome

NoScenario == Scenario(BareZone, "none", "list")

NoAssign == [name |-> "none", value |-> 0]

NoSystem == [system_id |-> 0, zones |-> <<>>]

NoZone == [kind |-> "unset", system_id |-> 0, zone_id |-> 0, data |-> JsonObject(<<>>)]

\* no backup file, no AirzoneBackup call yet
NoBackup == [op |-> "none", exists |-> FALSE, text |-> <<>>, dry_run |-> FALSE,
             result |-> "none"]

NoHost == ""

EntityIdle == /\ scenario = NoScenario
              /\ dev_zone = BareZone
              /\ zone_data = JsonObject(<<>>)
              /\ assign = NoAssign
              /\ reread = NoAnswer
              /\ system = NoSystem
              /\ found = NoZone
              /\ exit_code = 0
              /\ backup = NoBackup
              /\ host = NoHost

CacheInit ==
    /\ files = NoFiles
    /\ now = 0
    /\ max_age \in 0..MaxAge
    /\ cop = NoCacheOp
    /\ written = NoWritten
    /\ KeyIdle
    /\ ClientIdle
    /\ EntityIdle

\* cache.set(key, data)
Set(key, data) ==
    /\ files' = CacheSetFiles(files, now, key, data)
    /\ cop' = [op |-> "set", key |-> key, data |-> data, ok |-> CacheSetResult(data),
               value |-> None, prev |-> CacheGet(files, max_age, now, key), at |-> now]
    /\ written' = IF CacheSetResult(data)
                  THEN [k \in DOMAIN written \cup {key} |->
                           IF k = key THEN [data |-> data, at |-> now] ELSE written[k]]
                  ELSE [k \in DOMAIN written \ {key} |-> written[k]]
    /\ UNCHANGED <<now, max_age, keyVars, clientVars, entityVars>>

\* cache.get(key)
Get(key) ==
    /\ cop' = [op |-> "get", key |-> key, data |-> None, ok |-> TRUE,
               value |-> CacheGet(files, max_age, now, key),
               prev |-> CacheGet(files, max_age, now, key), at |-> now]
    /\ UNCHANGED <<files, now, max_age, written, keyVars, clientVars, entityVars>>

\* cache.invalidate(key)
Invalidate(key) ==
    /\ files' = CacheInvalidateFiles(files, key)
    /\ cop' = [op |-> "invalidate", key |-> key, data |-> None,
               ok |-> CacheInvalidateResult(files, key),
               value |-> None, prev |-> CacheGet(files, max_age, now, key), at |-> now]
    /\ written' = [k \in DOMAIN written \ {key} |-> written[k]]
    /\ UNCHANGED <<now, max_age, keyVars, clientVars, entityVars>>

\* cache.invalidate_all()
InvalidateAll ==
    /\ files' = CacheInvalidateAllFiles(files)
    /\ cop' = [op |-> "invalidate_all", key |-> "", data |-> None, ok |-> TRUE,
               value |-> None, prev |-> None, at |-> now]
    /\ written' = NoWritten
    /\ UNCHANGED <<now, max_age, keyVars, clientVars, entityVars>>

\* the wall clock advances
Tick ==
    /\ now < MaxTime
    /\ now' = now + 1
    /\ UNCHANGED <<files, max_age, cop, written, keyVars, clientVars, entityVars>>

CacheNext ==
    \/ \E key \in CacheKeys, data \in CacheDocs : Set(key, data)
    \/ \E key \in CacheKeys : Get(key)
    \/ \E key \in CacheKeys : Invalidate(key)
    \/ InvalidateAll
    \/ Tick

SpecCache == CacheInit /\ [][CacheNext]_vars

C8_FreshUntilMaxAgeThenAbsent ==
    \A k \in DOMAIN written :
        LET age == now - written[k].at
        IN  /\ age <= max_age => DocEq(CacheGet(files, max_age, now, k), written[k].data)
            /\ age > max_age => /\ CacheGet(files, max_age, now, k) = None
                                /\ CacheGet(files, max_age, now, k)
                                     = CacheGet(NoFiles, max_age, now, k)

C8_Witness ==
    /\ cop.op = "get"
    /\ cop.key \in DOMAIN written
    /\ written[cop.key].data = TestData
    /\ now - written[cop.key].at > max_age
    /\ cop.value = None
    /\ \E k \in DOMAIN written :
          /\ now - written[k].at = max_age
          /\ CacheGet(files, max_age, now, k) = TestList

Endpoints == {"version", "webserver", "hvac", "iaq", "demo"}

SetpointParams == DictOf(<<Item("setpoint", IntVal(23))>>)

Requests ==
    {NoBody(e) : e \in Endpoints}
    \cup {Request(e, FALSE, s, z, i, ps) :
            e \in Endpoints, s \in {Absent, 0, 1, 3, AllSystems}, z \in {Absent, 0, 2},
            i \in {Absent, 0, 1}, ps \in {EmptyDict, SetpointParams}}

CacheIdle == /\ files = NoFiles
             /\ now = 0
             /\ max_age = 0
             /\ cop = NoCacheOp
             /\ written = NoWritten

KeyInit == /\ KeyIdle
           /\ CacheIdle
           /\ ClientIdle
           /\ EntityIdle

Derive(r) ==
    /\ req' = r
    /\ derived' = [client |-> _generate_cache_key(r), flat |-> Flat_generate_cache_key(r)]
    /\ UNCHANGED <<cacheVars, clientVars, entityVars>>

KeyNext == \E r \in Requests : Derive(r)

SpecKey == KeyInit /\ [][KeyNext]_vars

\* The key table of the specification, by request shape ("" where the table
\* has no row for the shape).
TableKey(r) ==
    CASE r.endpoint = "version"   -> "version"
      [] r.endpoint = "webserver" -> "webserver"
      [] r.endpoint = "hvac" /\ ~r.none /\ r.systemID = 127 -> "systems"
      [] r.endpoint = "hvac" /\ ~r.none /\ r.systemID = 0 /\ r.zoneID = 0 -> "zones"
      [] r.endpoint = "hvac" /\ ~r.none /\ r.systemID \notin {Absent, 127}
           /\ r.zoneID # Absent /\ <<r.systemID, r.zoneID>> # <<0, 0>>
           -> "zone_" \o ToString(r.systemID) \o "_" \o ToString(r.zoneID)
      [] r.endpoint = "hvac" /\ ~r.none /\ r.systemID \notin {Absent, 127}
           /\ r.zoneID = Absent
           -> "system_" \o ToString(r.systemID)
      [] r.endpoint = "iaq" /\ ~r.none /\ r.systemID = 127 -> "iaq_sensors"
      [] r.endpoint = "iaq" /\ ~r.none /\ r.systemID \notin {Absent, 127}
           /\ r.iaqsensorid # Absent
           -> "iaq_sensor_" \o ToString(r.systemID) \o "_" \o ToString(r.iaqsensorid)
      [] r.endpoint = "iaq" /\ ~r.none /\ r.systemID \notin {Absent, 127}
           /\ r.iaqsensorid = Absent
           -> "iaq_system_" \o ToString(r.systemID)
      [] OTHER -> ""

(***************************************************************************)
(* C5: on every request shape of the key table both clients derive the key *)
(* the table gives: version, webserver, systems (systemID 127), zones      *)
(* (0, 0), zone_s_z, system_s, iaq_sensors, iaq_sensor_s_i, iaq_system_s.  *)
(***************************************************************************)
C5_KeyTable ==
    (req.endpoint # "" /\ TableKey(req) # "")
        => /\ derived.client = TableKey(req)
           /\ derived.flat = TableKey(req)

C5_Witness ==
    /\ req = Request("hvac", FALSE, 3, 2, Absent, EmptyDict)
    /\ derived = [client |-> "zone_3_2", flat |-> "zone_3_2"]

(***************************************************************************)
(* The API client.  A call is evaluated as a function of the client's      *)
(* configuration, the cache directory, the clock and the device's answer;  *)
(* its result is the directory afterwards, the HTTP requests issued and    *)
(* the outcome (a returned document, or an exception).                     *)
(***************************************************************************)
OK == 200                \* the one status the clients accept
ServerError == 500       \* a status the device may answer instead
TransportFailure == 0    \* no response: requests raised

Returned(doc) == [kind |-> "returned", doc |-> doc]
Raised        == [kind |-> "raised", doc |-> None]

HttpRequest(method, r) == [method |-> method, request |-> r]

Result(fs, reqs, out) == [files |-> fs, http |-> reqs, outcome |-> out]

\* _make_api_call, the cache check that comes first: the cached document
\* when it is to be returned, None when the call goes on to the device
CacheHit(cached_data) == IF Truthy(cached_data) THEN cached_data ELSE None

CacheLookup(lookup, cache_key, fs, maxAge, t) ==
    CacheHit(IF lookup /\ cache_key # NoKey THEN CacheGet(fs, maxAge, t, cache_key) ELSE None)

\* _make_api_call that deletes the entry of the key when the request fails
SendRequestDropsEntryOnFailure(store, cache_key, fs, t, method, r, ans) ==
    IF ans.status = OK
    THEN Result(IF store /\ cache_key # NoKey
                THEN CacheSetFiles(fs, t, cache_key, ans.doc) ELSE fs,
                <<HttpRequest(method, r)>>, Returned(ans.doc))
    ELSE Result(IF store THEN CacheInvalidateFiles(fs, cache_key) ELSE fs,
                <<HttpRequest(method, r)>>, Raised)

\* _make_api_call, from the request on: status 200 returns response.json(),
\* stored first when `store` holds; any other status, or no response, raises
SendRequest(store, cache_key, fs, t, method, r, ans) ==
    IF ans.status = OK
    THEN Result(IF store /\ cache_key # NoKey
                THEN CacheSetFiles(fs, t, cache_key, ans.doc) ELSE fs,
                <<HttpRequest(method, r)>>, Returned(ans.doc))
    ELSE Result(fs, <<HttpRequest(method, r)>>, Raised)

\* src/src/client.py AirzoneClient._make_api_call
\* _make_api_call: the cached document when there is one, the request if not
CachedOr(fs, cached, sent) == IF cached # None THEN Result(fs, <<>>, Returned(cached)) ELSE sent

_make_api_call(uc, fs, maxAge, t, r, force_refresh, method, ans) ==
    CachedOr(fs,
             CacheLookup(uc /\ ~force_refresh /\ method = "POST",
                         _generate_cache_key(r), fs, maxAge, t),
             SendRequest(uc /\ method = "POST", _generate_cache_key(r), fs, t, method, r, ans))

\* src/src/airzone_client.py AirzoneClient._make_api_call
Flat_make_api_call(uc, fs, maxAge, t, r, force_refresh, ans) ==
    CachedOr(fs,
             CacheLookup(uc /\ ~force_refresh, Flat_generate_cache_key(r), fs, maxAge, t),
             SendRequest(uc, Flat_generate_cache_key(r), fs, t, "POST", r, ans))

\* src/src/airzone_client.py AirzoneClient._make_put_request
Flat_make_put_request(fs, r, ans) == SendRequest(FALSE, NoKey, fs, 0, "PUT", r, ans)

\* the request each read method builds
ReadRequest(method, s, z, i) ==
    CASE method = "get_version"         -> NoBody("version")
      [] method = "get_webserver_info"  -> NoBody("webserver")
      [] method = "get_demo_data"       -> NoBody("demo")
      [] method = "get_all_systems"     ->
            Request("hvac", FALSE, AllSystems, Absent, Absent, EmptyDict)
      [] method = "get_all_zones"       ->
            Request("hvac", FALSE, AllZones, AllZones, Absent, EmptyDict)
      [] method = "get_system"          -> Request("hvac", FALSE, s, Absent, Absent, EmptyDict)
      [] method = "get_zone"            -> Request("hvac", FALSE, s, z, Absent, EmptyDict)
      [] method = "get_all_iaq_sensors" -> Request("iaq", FALSE, 1, Absent, 0, EmptyDict)
      [] method = "get_iaq_sensor"      -> Request("iaq", FALSE, s, Absent, i, EmptyDict)
      [] method = "_make_api_call_hvac" -> NoBody("hvac")
      [] method = "_make_api_call_iaq"  -> NoBody("iaq")

\* get_webserver_info that adds the connection fields to the document it
\* returns but does not store it again
Flat_get_webserver_info_NotStored(uc, fs, maxAge, t, force_refresh, ans) ==
    LET res == Flat_make_api_call(uc, fs, maxAge, t, NoBody("webserver"), force_refresh, ans)
        webserver_info == res.outcome.doc
    IN  IF res.outcome.kind = "raised" THEN res
        ELSE IF Truthy(webserver_info) /\ IsDict(webserver_info)
        THEN Result(res.files, res.http,
                    Returned(DictSet(DictSet(webserver_info, "ip_address", StrVal(Host)),
                                     "port", IntVal(Port))))
        ELSE res

\* src/src/airzone_client.py AirzoneClient.get_webserver_info: the document is
\* given the connection fields and stored again under "webserver".
WebserverEnhanced(uc, t, res, enhanced) ==
    IF res.outcome.kind = "raised" THEN res
    ELSE IF Truthy(res.outcome.doc) /\ IsDict(res.outcome.doc)
    THEN Result(IF uc THEN CacheSetFiles(res.files, t, "webserver", enhanced) ELSE res.files,
                res.http, Returned(enhanced))
    ELSE res

WebserverRead(uc, t, res) == WebserverEnhanced(uc, t, res, DictSet(DictSet(res.outcome.doc, "ip_address", StrVal(Host)), "port", IntVal(Port)))

Flat_get_webserver_info(uc, fs, maxAge, t, force_refresh, ans) == WebserverRead(uc, t, Flat_make_api_call(uc, fs, maxAge, t, NoBody("webserver"), force_refresh, ans))

\* a read method of the client module in use
ReadCall(im, uc, fs, maxAge, t, method, s, z, i, force_refresh, ans) ==
    IF im = "client"
    THEN _make_api_call(uc, fs, maxAge, t, ReadRequest(method, s, z, i),
                        force_refresh, "POST", ans)
    ELSE IF method = "get_webserver_info"
    THEN Flat_get_webserver_info(uc, fs, maxAge, t, force_refresh, ans)
    ELSE Flat_make_api_call(uc, fs, maxAge, t, ReadRequest(method, s, z, i),
                            force_refresh, ans)

\* a write that goes through the read path: sent as POST, the cache consulted
\* and the response stored
PutCallAsPost(im, uc, fs, maxAge, t, r, ans) ==
    _make_api_call(uc, fs, maxAge, t, r, FALSE, "POST", ans)

\* the PUT of a write method of the client module in use
PutCall(im, uc, fs, maxAge, t, r, ans) ==
    IF im = "client"
    THEN _make_api_call(uc, fs, maxAge, t, r, FALSE, "PUT", ans)
    ELSE Flat_make_put_request(fs, r, ans)

Range(seq) == {seq[n] : n \in 1..Len(seq)}

RECURSIVE InvalidateEach(_, _)
InvalidateEach(fs, keys) ==
    IF keys = <<>> THEN fs
    ELSE InvalidateEach(CacheInvalidateFiles(fs, Head(keys)), Tail(keys))

\* set_zone_parameters that forgets the "all zones" aggregate
ZoneWriteInvalidationsWithoutZones(s, z) == <<ZoneKey(s, z), SystemKey(s), "systems">>

\* set_zone_parameters that forgets the zone's parent system
ZoneWriteInvalidationsWithoutSystem(s, z) == <<ZoneKey(s, z), "systems", "zones">>

\* the keys set_zone_parameters invalidates, in order
ZoneWriteInvalidations(s, z) == <<ZoneKey(s, z), SystemKey(s), "systems", "zones">>

\* the keys set_iaq_parameters invalidates, in order
IaqWriteInvalidations(s, i) == <<IaqSensorKey(s, i), IaqSystemKey(s), "iaq_sensors">>

\* a set_zone_parameters that leaves the cache as it is
set_zone_parameters_KeepsCache(im, uc, fs, maxAge, t, s, z, parameters, ans) ==
    PutCall(im, uc, fs, maxAge, t, Request("hvac", FALSE, s, z, Absent, parameters), ans)

\* AirzoneClient.set_zone_parameters (both modules)
set_zone_parameters(im, uc, fs, maxAge, t, s, z, parameters, ans) ==
    LET data == Request("hvac", FALSE, s, z, Absent, parameters)
        res  == PutCall(im, uc, fs, maxAge, t, data, ans)
    IN  IF res.outcome.kind = "raised" THEN res
        ELSE Result(IF uc THEN InvalidateEach(res.files, ZoneWriteInvalidations(s, z))
                    ELSE res.files,
                    res.http, res.outcome)

\* AirzoneClient.set_iaq_parameters (both modules)
set_iaq_parameters(im, uc, fs, maxAge, t, s, i, parameters, ans) ==
    LET data == Request("iaq", FALSE, s, Absent, i, parameters)
        res  == PutCall(im, uc, fs, maxAge, t, data, ans)
    IN  IF res.outcome.kind = "raised" THEN res
        ELSE Result(IF uc THEN InvalidateEach(res.files, IaqWriteInvalidations(s, i))
                    ELSE res.files,
                    res.http, res.outcome)

(***************************************************************************)
(* Spec: one client object (of either module, with or without a cache)     *)
(* calling its methods against a device.  The device answers a request     *)
(* with status 200 and its current document, with status 500, or not at    *)
(* all.  One run works on one endpoint family; the families' cache keys    *)
(* are disjoint.                                                           *)
(***************************************************************************)
SystemIds == {1}
ZoneIds   == {2}
SensorIds == {1}

InfoDoc == DictOf(<<Item("ws_type", StrVal("ws_az"))>>)

DeviceDocs == {EmptyDict, InfoDoc}

IaqParams == DictOf(<<Item("iaq_mode_vent", IntVal(1))>>)

Families == {"info", "hvac", "iaq", "raw"}

ReadMethods(f) ==
    CASE f = "info" -> {"get_version", "get_webserver_info", "get_demo_data"}
      [] f = "hvac" -> {"get_all_systems", "get_all_zones", "get_system", "get_zone"}
      [] f = "iaq"  -> {"get_all_iaq_sensors", "get_iaq_sensor"}
      [] f = "raw"  -> {"_make_api_call_hvac", "_make_api_call_iaq"}
      [] OTHER      -> {}

Statuses == {OK, ServerError, TransportFailure}

Answer(status, doc) == [status |-> status, doc |-> IF status = OK THEN doc ELSE None]

ClientInit ==
    /\ files = NoFiles
    /\ now = 0
    /\ max_age \in 0..MaxAge
    /\ cop = NoCacheOp
    /\ written = NoWritten
    /\ KeyIdle
    /\ impl \in {"client", "flat"}
    /\ use_cache \in BOOLEAN
    /\ device \in DeviceDocs
    /\ family \in Families
    /\ call = NoCall
    /\ http = <<>>
    /\ answer = NoAnswer
    /\ before = NoBefore
    /\ outcome = NoOutcome
    /\ EntityIdle

Finish(op, r, force_refresh, keys, res, ans) ==
    /\ files' = res.files
    /\ before' = [k \in (IF use_cache THEN keys ELSE {}) |-> CacheGet(files, max_age, now, k)]
    /\ http' = res.http
    /\ outcome' = res.outcome
    /\ answer' = IF res.http = <<>> THEN NoAnswer ELSE ans
    /\ call' = [op |-> op, request |-> r, force_refresh |-> force_refresh]
    /\ UNCHANGED <<now, max_age, cop, written, keyVars, impl, use_cache, family, entityVars>>

\* client.<read method>(..., force_refresh)
Read(method, s, z, i, force_refresh, status) ==
    /\ method \in ReadMethods(family)
    /\ method = "get_demo_data" => ~force_refresh
    /\ Finish(method, ReadRequest(method, s, z, i), force_refresh,
              {KeyOf(impl, ReadRequest(method, s, z, i))} \ {NoKey},
              ReadCall(impl, use_cache, files, max_age, now, method, s, z, i,
                       force_refresh, Answer(status, device)),
              Answer(status, device))
    /\ UNCHANGED device

\* client.set_zone_parameters(s, z, parameters); an accepted write leaves the
\* device in the state `after`, which it answers with
WriteZone(s, z, parameters, status, after) ==
    /\ family = "hvac"
    /\ Finish("set_zone_parameters", Request("hvac", FALSE, s, z, Absent, parameters), FALSE,
              Range(ZoneWriteInvalidations(s, z)),
              set_zone_parameters(impl, use_cache, files, max_age, now, s, z, parameters,
                                  Answer(status, after)),
              Answer(status, after))
    /\ device' = IF status = OK THEN after ELSE device

\* client.set_iaq_parameters(s, i, parameters)
WriteIaq(s, i, parameters, status, after) ==
    /\ family = "iaq"
    /\ Finish("set_iaq_parameters", Request("iaq", FALSE, s, Absent, i, parameters), FALSE,
              Range(IaqWriteInvalidations(s, i)),
              set_iaq_parameters(impl, use_cache, files, max_age, now, s, i, parameters,
                                 Answer(status, after)),
              Answer(status, after))
    /\ device' = IF status = OK THEN after ELSE device

Next ==
    \/ \E m \in ReadMethods(family), s \in SystemIds, z \in ZoneIds, i \in SensorIds,
          f \in BOOLEAN, st \in Statuses : Read(m, s, z, i, f, st)
    \/ \E s \in SystemIds, z \in ZoneIds, st \in Statuses, after \in DeviceDocs :
          WriteZone(s, z, SetpointParams, st, after)
    \/ \E s \in SystemIds, i \in SensorIds, st \in Statuses, after \in DeviceDocs :
          WriteIaq(s, i, IaqParams, st, after)
    \/ Tick

Spec == ClientInit /\ [][Next]_vars

AllReadMethods == UNION {ReadMethods(f) : f \in Families}

IsRead == call.op \in AllReadMethods

\* the document the file of `key` holds, as json.load reads it
Stored(fs, key) == JsonLoad(fs[_get_cache_path(key)].text)

HasFile(fs, key) == _get_cache_path(key) \in DOMAIN fs

C2_IaqWriteInvalidates ==
    (use_cache /\ call.op = "set_iaq_parameters" /\ outcome.kind = "returned")
        => \A k \in {IaqSensorKey(call.request.systemID, call.request.iaqsensorid),
                     IaqSystemKey(call.request.systemID), "iaq_sensors",
                     KeyOf(impl, ReadRequest("get_all_iaq_sensors", 0, 0, 0))} :
              CacheGet(files, max_age, now, k) = None

(***************************************************************************)
(* C3: with the cache enabled and force_refresh false, a read whose key    *)
(* has a present, unexpired entry returns the stored document and sends no *)
(* HTTP request, whatever document an earlier read stored (an empty object *)
(* or list included); a forced read or a miss sends exactly one request.   *)
(***************************************************************************)
DerivedKey == KeyOf(impl, call.request)

\* the last call was a read and found a present, unexpired entry under its key
FoundEntry ==
    /\ IsRead
    /\ use_cache
    /\ DerivedKey \in DOMAIN before
    /\ before[DerivedKey] # None

C3_HitServesStoredDocument ==
    (IsRead /\ use_cache)
        => IF FoundEntry /\ ~call.force_refresh
           THEN http = <<>> /\ outcome.kind = "returned" /\ DocEq(outcome.doc, before[DerivedKey])
           ELSE Len(http) = 1

(***************************************************************************)
(* C4: when a read reaches the device, gets status 200 and its request is  *)
(* cacheable, the document stored under the derived key when the read      *)
(* returns is the raw decoded response, for every read method              *)
(* (get_webserver_info included).                                          *)
(***************************************************************************)
ReadStoredResponse ==
    /\ IsRead
    /\ use_cache
    /\ http # <<>>
    /\ answer.status = OK
    /\ DerivedKey # NoKey

C4_StoresRawResponse ==
    ReadStoredResponse
        => /\ HasFile(files, DerivedKey)
           /\ DocEq(Stored(files, DerivedKey), answer.doc)

\* C4 as amended: the flat client's get_webserver_info stores (and returns)
\* a non-empty object response with ip_address and port set to the client's
\* host and port; every other read stores the raw decoded response.
ItemsOf(d) == {d.items[n] : n \in 1..Len(d.items)}

WithConnection(d) ==
    {it \in ItemsOf(d) : it.k \notin {"ip_address", "port"}}
        \cup {Item("ip_address", StrVal(Host)), Item("port", IntVal(Port))}

C4_StoresRawResponseExceptFlatWebserver ==
    ReadStoredResponse
        => /\ HasFile(files, DerivedKey)
           /\ IF /\ impl = "flat"
                 /\ call.op = "get_webserver_info"
                 /\ answer.doc.kind = "dict"
                 /\ answer.doc.items # <<>>
              THEN /\ Stored(files, DerivedKey).kind = "dict"
                   /\ ItemsOf(Stored(files, DerivedKey)) = WithConnection(answer.doc)
                   /\ DocEq(outcome.doc, Stored(files, DerivedKey))
              ELSE DocEq(Stored(files, DerivedKey), answer.doc)

C4_Witness ==
    /\ ReadStoredResponse
    /\ impl = "flat"
    /\ call.op = "get_webserver_info"
    /\ answer.doc = InfoDoc
    /\ Stored(files, "webserver") # InfoDoc

(***************************************************************************)
(* C6: a read whose request shape is outside the key table (demo, or hvac  *)
(* / iaq without a body or without systemID) has no key, so it always      *)
(* sends an HTTP request and neither reads nor creates a cache entry.      *)
(***************************************************************************)
\* a step that is a call of a read method (the clock stands still during a call)
ReadStep == now' = now /\ call'.op \in AllReadMethods

C6_OutsideTableNeverCached ==
    [][(ReadStep /\ TableKey(call'.request) = "")
          => /\ KeyOf(impl, call'.request) = NoKey
             /\ Len(http') = 1
             /\ before' = NoBefore
             /\ files' = files]_vars

(***************************************************************************)
(* C10: when the device answers a read with a status other than 200, or    *)
(* the transport fails, the read raises, has sent exactly one HTTP request *)
(* (no retry), returns no document and leaves the cache as it was.         *)
(***************************************************************************)
C10_FailedReadRaisesCacheUntouched ==
    [][(ReadStep /\ answer'.status \in {ServerError, TransportFailure})
          => /\ outcome' = Raised
             /\ Len(http') = 1
             /\ files' = files]_vars

C10_Witness ==
    /\ IsRead
    /\ use_cache
    /\ outcome = Raised
    /\ answer.status = ServerError
    /\ Len(http) = 1
    /\ HasFile(files, DerivedKey)

(***************************************************************************)
(* C11: set_zone_parameters and set_iaq_parameters send exactly one PUT    *)
(* request whatever the cache holds, return the device's answer (never a   *)
(* cached document) and store nothing in the cache; every request a read   *)
(* method sends is a POST.                                                 *)
(***************************************************************************)
WriteMethods == {"set_zone_parameters", "set_iaq_parameters"}

\* a step that is a call of a write method
WriteStep == now' = now /\ call'.op \in WriteMethods

NullValue == [t |-> "null", i |-> 0, s |-> ""]

\* response[k] of a decoded response
DocGet(doc, k) == doc.items[CHOOSE n \in 1..Len(doc.items) : doc.items[n].k = k].v

\* a decoded response kept as an entity's _data
DocAsValue(doc) ==
    IF IsDict(doc)
    THEN JsonObject([k \in {doc.items[n].k : n \in 1..Len(doc.items)} |-> DocGet(doc, k)])
    ELSE NullValue

\* self._data.get(k, default)
DataGet(d, k, default) == IF k \in DOMAIN d.fields THEN d.fields[k] ELSE default

ListTruthy(v) == v.t = "list" /\ Len(v.elems) > 0

InList(n, v) == \E j \in 1..Len(v.elems) : v.elems[j] = IntVal(n)

\* self._data[field] = value
NodeSet(d, field, value) == JsonObject(SetField(d.fields, field, value))

\* refresh(): what _data becomes for a response of get_zone
RefreshData(response) ==
    IF IsDict(response) /\ HasKey(response, "data")
    THEN LET zone_list == DocGet(response, "data")
         IN  IF ListTruthy(zone_list) THEN zone_list.elems[1] ELSE zone_list
    ELSE DocAsValue(response)

MaxSleep == 1440
DefaultMinTemp == 15
DefaultMaxTemp == 30
Cooling == 2
Heating == 3

\* a validate_mode that accepts only what a reported list names
validate_mode_FailClosed(d, mode) ==
    LET available_modes == DataGet(d, "modes", JsonList(<<>>))
    IN  ListTruthy(available_modes) /\ InList(mode, available_modes)

\* src/src/zone.py AirzoneZone.validate_mode
Zone_validate_mode(d, mode) ==
    LET available_modes == DataGet(d, "modes", JsonList(<<>>))
    IN  ~ListTruthy(available_modes) \/ InList(mode, available_modes)

\* src/src/airzone_client.py AirzoneZone.validate_mode
Flat_validate_mode(d, mode) ==
    LET available_modes == DataGet(d, "modes", JsonList(<<>>))
    IN  IF ListTruthy(available_modes) THEN InList(mode, available_modes) ELSE TRUE

\* src/src/zone.py AirzoneZone.validate_fan_speed
Zone_validate_fan_speed(d, speed) ==
    LET available_speeds == DataGet(d, "speed_values", JsonList(<<>>))
        max_speeds       == DataGet(d, "speeds", NullValue)
    IN  IF ListTruthy(available_speeds) THEN InList(speed, available_speeds)
        ELSE IF max_speeds # NullValue THEN 0 <= speed /\ speed <= max_speeds.i
        ELSE TRUE

\* src/src/airzone_client.py AirzoneZone.validate_fan_speed
Flat_validate_fan_speed(d, speed) ==
    LET available_speeds == DataGet(d, "speed_values", JsonList(<<>>))
        max_speeds       == DataGet(d, "speeds", NullValue)
    IN  IF ListTruthy(available_speeds) THEN InList(speed, available_speeds)
        ELSE IF max_speeds # NullValue THEN 0 <= speed /\ speed <= max_speeds.i
        ELSE TRUE

\* a sleep timer that takes any number of minutes
validate_sleep_timer_Unbounded(minutes) == minutes \in Int

\* the sleep timer's range test (zone.py sleep_timer setter, airzone_client.py
\* validate_sleep_timer)
validate_sleep_timer(minutes) == 0 <= minutes /\ minutes <= MaxSleep

\* src/src/zone.py AirzoneZone.validate_temperature (no setter calls it)
Zone_validate_temperature(d, temp) ==
    LET min_temp == DataGet(d, "minTemp", IntVal(DefaultMinTemp))
        max_temp == DataGet(d, "maxTemp", IntVal(DefaultMaxTemp))
    IN  min_temp.i <= temp /\ temp <= max_temp.i

\* src/src/airzone_client.py AirzoneZone.validate_setpoint(setpoint), mode not given
Flat_validate_setpoint(d, setpoint) ==
    LET current_mode == DataGet(d, "mode", IntVal(0)).i
        min_temp == CASE current_mode = Cooling -> DataGet(d, "coolmintemp", NullValue)
                      [] current_mode = Heating -> DataGet(d, "heatmintemp", NullValue)
                      [] OTHER                  -> DataGet(d, "minTemp", NullValue)
        max_temp == CASE current_mode = Cooling -> DataGet(d, "coolmaxtemp", NullValue)
                      [] current_mode = Heating -> DataGet(d, "heatmaxtemp", NullValue)
                      [] OTHER                  -> DataGet(d, "maxTemp", NullValue)
        temp_step == DataGet(d, "temp_step", NullValue)
        min_temp_check == IF min_temp = NullValue THEN 0 ELSE min_temp.i
    IN  IF min_temp # NullValue /\ setpoint < min_temp.i THEN FALSE
        ELSE IF max_temp # NullValue /\ setpoint > max_temp.i THEN FALSE
        ELSE IF temp_step # NullValue /\ temp_step.i > 0
        THEN (setpoint - min_temp_check) % temp_step.i = 0
        ELSE TRUE

\* the setters each Zone / IAQ sensor class has
Setters(im) ==
    IF im = "client"
    THEN {"on", "setpoint", "mode", "fan_speed", "sleep_timer", "ventilation_mode"}
    ELSE {"on", "setpoint", "mode", "fan_speed", "sleep_timer", "slats_vertical",
          "slats_horizontal", "vertical_swing", "horizontal_swing", "ventilation_mode"}

PyError(name) == [kind |-> name, doc |-> None]

\* what a setter does before it sends anything: "ok", or the exception it
\* raises (a validator reading a _data that is not a dict fails on .get)
Validate(im, name, d, value) ==
    CASE name = "mode" ->
            IF d.t # "dict" THEN "AttributeError"
            ELSE IF (IF im = "client" THEN Zone_validate_mode(d, value)
                     ELSE Flat_validate_mode(d, value))
            THEN "ok" ELSE "ValueError"
      [] name = "fan_speed" ->
            IF d.t # "dict" THEN "AttributeError"
            ELSE IF (IF im = "client" THEN Zone_validate_fan_speed(d, value)
                     ELSE Flat_validate_fan_speed(d, value))
            THEN "ok" ELSE "ValueError"
      [] name = "sleep_timer" ->
            IF validate_sleep_timer(value) THEN "ok" ELSE "ValueError"
      [] name = "setpoint" /\ im = "flat" ->
            IF d.t # "dict" THEN "AttributeError"
            ELSE IF Flat_validate_setpoint(d, value) THEN "ok" ELSE "ValueError"
      [] name = "ventilation_mode" ->
            IF value \in {0, 1, 2} THEN "ok" ELSE "ValueError"
      [] OTHER -> "ok"

EntityResult(fs, reqs, out, data) ==
    [files |-> fs, http |-> reqs, outcome |-> out, data |-> data]

\* the setters of airzone_client.py that rely on refresh alone for the new value
RefreshOnly == {"on", "mode", "ventilation_mode"}

\* the PUT a setter sends: set_iaq_parameters for the IAQ sensor of
\* airzone_client.py, set_zone_parameters for everything else
SetterPut(im, uc, fs, maxAge, t, s, z, name, value, put_ans) ==
    LET parameters == DictOf(<<Item(WireField(im, name), IntVal(value))>>)
    IN  IF im = "flat" /\ name = "ventilation_mode"
        THEN set_iaq_parameters(im, uc, fs, maxAge, t, s, z, parameters, put_ans)
        ELSE set_zone_parameters(im, uc, fs, maxAge, t, s, z, parameters, put_ans)

\* the read refresh() makes
RefreshMethod(im, name) ==
    IF im = "flat" /\ name = "ventilation_mode" THEN "get_iaq_sensor" ELSE "get_zone"

\* a setter that records the new value first and sends the request afterwards
ZoneSetterOptimistic(im, uc, fs, maxAge, t, s, z, data, name, value, put_ans, get_ans) ==
    LET put == SetterPut(im, uc, fs, maxAge, t, s, z, name, value, put_ans)
        set == IF data.t = "dict" THEN NodeSet(data, WireField(im, name), value) ELSE data
    IN  IF Validate(im, name, data, value) # "ok"
        THEN EntityResult(fs, <<>>, PyError(Validate(im, name, data, value)), data)
        ELSE EntityResult(put.files, put.http,
                          IF put.outcome.kind = "raised" THEN Raised ELSE Returned(None),
                          set)

\* the last statement of a setter: self._data[field] = value on the snapshot
\* the setter has by then (turn_on/turn_off, mode and ventilation_mode of
\* airzone_client.py end with the refresh instead)
SetterAssigned(im, name, value, fs, reqs, snapshot) ==
    IF im = "flat" /\ name \in RefreshOnly
    THEN EntityResult(fs, reqs, Returned(None), snapshot)
    ELSE IF snapshot.t = "dict"
    THEN EntityResult(fs, reqs, Returned(None), NodeSet(snapshot, WireField(im, name), value))
    ELSE EntityResult(fs, reqs, PyError("TypeError"), snapshot)

\* a setter of airzone_client.py after self.refresh(force_refresh=True) made
\* the call read
SetterRefreshed(im, name, value, data, reqs, read) ==
    IF read.outcome.kind = "raised"
    THEN EntityResult(read.files, reqs \o read.http, Raised, data)
    ELSE SetterAssigned(im, name, value, read.files, reqs \o read.http,
                        RefreshData(read.outcome.doc))

\* a setter after its call put of set_zone_parameters / set_iaq_parameters
SetterWritten(im, uc, maxAge, t, s, z, data, name, value, get_ans, put) ==
    IF put.outcome.kind = "raised"
    THEN EntityResult(put.files, put.http, Raised, data)
    ELSE IF im = "client"
    THEN SetterAssigned(im, name, value, put.files, put.http, data)
    ELSE SetterRefreshed(im, name, value, data, put.http,
                         ReadCall(im, uc, put.files, maxAge, t, RefreshMethod(im, name),
                                  s, z, z, TRUE, get_ans))

\* a setter after its validation gave verdict
SetterValidated(im, uc, fs, maxAge, t, s, z, data, name, value, put_ans, get_ans, verdict) ==
    IF verdict # "ok"
    THEN EntityResult(fs, <<>>, PyError(verdict), data)
    ELSE SetterWritten(im, uc, maxAge, t, s, z, data, name, value, get_ans,
                       SetterPut(im, uc, fs, maxAge, t, s, z, name, value, put_ans))

\* zone.<name> = value (for the booleans on and swing, value is 1 or 0 as sent):
\* validate, write through, then update the snapshot.  zone.py and
\* iaq_sensor.py assign the field; airzone_client.py refreshes from the
\* device with force_refresh and then assigns the field (turn_on/turn_off,
\* mode and ventilation_mode only refresh).
ZoneSetter(im, uc, fs, maxAge, t, s, z, data, name, value, put_ans, get_ans) ==
    SetterValidated(im, uc, fs, maxAge, t, s, z, data, name, value, put_ans, get_ans,
                    Validate(im, name, data, value))

\* refresh() after its call read of get_zone
Refreshed(data, read) ==
    IF read.outcome.kind = "raised"
    THEN EntityResult(read.files, read.http, Raised, data)
    ELSE EntityResult(read.files, read.http, Returned(None), RefreshData(read.outcome.doc))

\* zone.refresh(force_refresh)
ZoneRefresh(im, uc, fs, maxAge, t, s, z, data, method, force_refresh, ans) ==
    Refreshed(data, ReadCall(im, uc, fs, maxAge, t, method, s, z, z, force_refresh, ans))

\* how the device answers a read of the zone
ZoneResponse(shape, row) ==
    CASE shape = "list"   -> DictOf(<<Item("data", JsonList(<<JsonObject(row)>>))>>)
      [] shape = "dict"   -> DictOf(<<Item("data", JsonObject(row))>>)
      [] shape = "empty"  -> DictOf(<<Item("data", JsonList(<<>>))>>)
      [] shape = "nodata" -> EmptyDict

(***************************************************************************)
(* SpecZone: one Zone (or IAQ sensor) entity of system 1, zone 2, its      *)
(* client and the device.  The device applies a write it answers with 200  *)
(* and changes at no other time.                                           *)
(***************************************************************************)
TheSystem == 1
TheZone   == 2

ZoneInit ==
    /\ files = NoFiles
    /\ now = 0
    /\ max_age = MaxAge
    /\ cop = NoCacheOp
    /\ written = NoWritten
    /\ KeyIdle
    /\ impl \in {"client", "flat"}
    /\ use_cache \in BOOLEAN
    /\ device = EmptyDict
    /\ family = "hvac"
    /\ call = NoCall
    /\ http = <<>>
    /\ answer = NoAnswer
    /\ before = NoBefore
    /\ outcome = NoOutcome
    /\ scenario \in Scenarios
    /\ dev_zone = scenario.config
    /\ zone_data \in {JsonObject(scenario.config), JsonObject(<<>>)}
    /\ assign = NoAssign
    /\ reread = NoAnswer
    /\ system = NoSystem
    /\ found = NoZone
    /\ exit_code = 0
    /\ backup = NoBackup
    /\ host = NoHost

\* what an assignment leaves behind; after is the zone the device holds once
\* it has applied the write
Assigned(name, value, put_status, get_status, after, res) ==
    /\ files' = res.files
    /\ http' = res.http
    /\ outcome' = res.outcome
    /\ zone_data' = res.data
    /\ dev_zone' = IF res.http # <<>> THEN after ELSE dev_zone
    /\ answer' = IF res.http # <<>> THEN Answer(put_status, EmptyDict) ELSE NoAnswer
    /\ reread' = IF Len(res.http) > 1 THEN Answer(get_status, EmptyDict) ELSE NoAnswer
    /\ assign' = [name |-> name, value |-> value]
    /\ UNCHANGED <<now, max_age, cop, written, keyVars, impl, use_cache, device, family,
                   call, before, scenario, backup, host, system, found, exit_code>>

\* the zone the device holds after a PUT it answers with put_status
DeviceAfter(name, value, put_status) ==
    IF put_status = OK THEN SetField(dev_zone, WireField(impl, name), value) ELSE dev_zone

\* zone.<name> = value; the device answers the PUT with put_status and the
\* read that may follow with get_status
AssignAttr(name, value, put_status, get_status) ==
    /\ name = scenario.setter
    /\ name \in Setters(impl)
    /\ value \in SetterValues(name)
    /\ Assigned(name, value, put_status, get_status, DeviceAfter(name, value, put_status),
                ZoneSetter(impl, use_cache, files, max_age, now, TheSystem, TheZone,
                           zone_data, name, value, Answer(put_status, EmptyDict),
                           Answer(get_status,
                                  ZoneResponse(scenario.shape,
                                               DeviceAfter(name, value, put_status)))))

\* what a refresh leaves behind
RefreshDone(force_refresh, status, res) ==
    /\ files' = res.files
    /\ http' = res.http
    /\ outcome' = res.outcome
    /\ zone_data' = res.data
    /\ answer' = NoAnswer
    /\ reread' = IF res.http # <<>> THEN Answer(status, EmptyDict) ELSE NoAnswer
    /\ assign' = [name |-> "refresh", value |-> IF force_refresh THEN 1 ELSE 0]
    /\ UNCHANGED <<now, max_age, cop, written, keyVars, impl, use_cache, device, family,
                   call, before, scenario, backup, host, dev_zone, system, found, exit_code>>

\* zone.refresh(force_refresh)
Refresh(force_refresh, status) ==
    RefreshDone(force_refresh, status,
                ZoneRefresh(impl, use_cache, files, max_age, now, TheSystem, TheZone,
                            zone_data, RefreshMethod(impl, scenario.setter), force_refresh,
                            Answer(status, ZoneResponse(scenario.shape, dev_zone))))

\* only the setters of airzone_client.py read the zone back
RereadStatuses == IF impl = "flat" THEN Statuses ELSE {OK}

ZoneNext ==
    \/ \E value \in SetterValues(scenario.setter), ps \in Statuses, gs \in RereadStatuses :
          AssignAttr(scenario.setter, value, ps, gs)
    \/ \E f \in BOOLEAN, st \in Statuses : Refresh(f, st)

SpecZone == ZoneInit /\ [][ZoneNext]_vars

\* every cache file holds a text json.load can decode
FilesDecode == \A p \in DOMAIN files : JsonLoad(files[p].text) # JsonError

\* a step that is an attribute assignment
SetterStep == assign'.name = scenario.setter /\ assign'.name \in Setters(impl)

\* the value self._data holds for the attribute a setter writes
LocalField(data, name) ==
    IF data.t = "dict" THEN DataGet(data, WireField(impl, name), NullValue) ELSE NullValue

\* C12: when the device does not answer a setter's PUT with 200 the setter
\* raises and leaves the entity's _data as it was; _data changes in a setter
\* only after the PUT was answered with 200
C12_FailedWriteLeavesSnapshot ==
    [][SetterStep
       => /\ (http' # <<>> /\ answer'.status # OK)
             => /\ outcome' = Raised
                /\ zone_data' = zone_data
                /\ Len(http') = 1
          /\ zone_data' # zone_data
             => /\ http' # <<>>
                /\ http'[1].method = "PUT"
                /\ answer'.status = OK]_vars

C12_Witness ==
    /\ assign = [name |-> "setpoint", value |-> 23]
    /\ answer.status = ServerError
    /\ outcome = Raised
    /\ Len(http) = 1
    /\ scenario.config = HeatingZone
    /\ zone_data = JsonObject(HeatingZone)
    /\ LocalField(zone_data, "setpoint") = IntVal(21)

\* the assignments the device's reported capabilities rule out
Rejected(data, name, value) ==
    LET modes        == DataGet(data, "modes", JsonList(<<>>))
        speed_values == DataGet(data, "speed_values", JsonList(<<>>))
        speeds       == DataGet(data, "speeds", NullValue)
    IN  CASE name = "mode"        -> ListTruthy(modes) /\ ~InList(value, modes)
          [] name = "fan_speed"   ->
                IF ListTruthy(speed_values) THEN ~InList(value, speed_values)
                ELSE speeds # NullValue /\ (value < 0 \/ value > speeds.i)
          [] name = "sleep_timer" -> value < 0 \/ value > 1440
          [] OTHER                -> FALSE

\* C13: a mode, fan speed or sleep timer the zone's reported capabilities rule
\* out makes the setter raise ValueError with no request sent and with _data,
\* the cache and the device unchanged; a request a setter does send carries
\* the assigned value
C13_RejectedAssignmentSendsNothing ==
    [][SetterStep
       => /\ (zone_data.t = "dict" /\ Rejected(zone_data, assign'.name, assign'.value))
             => /\ outcome' = PyError("ValueError")
                /\ http' = <<>>
                /\ zone_data' = zone_data
                /\ files' = files
                /\ dev_zone' = dev_zone
          /\ http' # <<>>
             => http'[1].request.params
                  = DictOf(<<Item(WireField(impl, assign'.name), IntVal(assign'.value))>>)]_vars

C13_Witness ==
    /\ assign = [name |-> "mode", value |-> 4]
    /\ scenario.config = CoolingZone
    /\ zone_data = JsonObject(CoolingZone)
    /\ outcome = PyError("ValueError")
    /\ http = <<>>
    /\ files # NoFiles

\* the limits the zone reports for its current mode: the cooling pair in mode
\* 2, the heating pair in mode 3, minTemp and maxTemp in any other mode
ModeMin(data) ==
    LET mode == DataGet(data, "mode", IntVal(0)).i
    IN  DataGet(data, IF mode = 2 THEN "coolmintemp"
                      ELSE IF mode = 3 THEN "heatmintemp" ELSE "minTemp", NullValue)

ModeMax(data) ==
    LET mode == DataGet(data, "mode", IntVal(0)).i
    IN  DataGet(data, IF mode = 2 THEN "coolmaxtemp"
                      ELSE IF mode = 3 THEN "heatmaxtemp" ELSE "maxTemp", NullValue)

\* C14: a setpoint below the lower or above the upper limit the zone reports
\* for its current mode makes the setpoint setter raise ValueError and send
\* nothing, in both implementations
C14_SetpointWithinModeBounds ==
    [][(/\ SetterStep
        /\ assign'.name = "setpoint"
        /\ zone_data.t = "dict"
        /\ \/ ModeMin(zone_data) # NullValue /\ assign'.value < ModeMin(zone_data).i
           \/ ModeMax(zone_data) # NullValue /\ assign'.value > ModeMax(zone_data).i)
       => /\ outcome' = PyError("ValueError")
          /\ http' = <<>>]_vars

\* C15: in a mode other than cooling and heating, on a zone that reports
\* neither minTemp nor maxTemp, a setpoint below 15 or above 30 makes the
\* setpoint setter raise ValueError and send nothing
C15_DefaultSetpointBounds ==
    [][(/\ SetterStep
        /\ assign'.name = "setpoint"
        /\ zone_data.t = "dict"
        /\ DataGet(zone_data, "mode", IntVal(0)).i \notin {Cooling, Heating}
        /\ "minTemp" \notin DOMAIN zone_data.fields
        /\ "maxTemp" \notin DOMAIN zone_data.fields
        /\ (assign'.value < DefaultMinTemp \/ assign'.value > DefaultMaxTemp))
       => /\ outcome' = PyError("ValueError")
          /\ http' = <<>>]_vars

\* the modes a caller may ask about
ModeValues == 0..5

\* validate_mode of the entity's class
EntityValidateMode(data, mode) ==
    IF impl = "client" THEN Zone_validate_mode(data, mode) ELSE Flat_validate_mode(data, mode)

\* C16: validate_mode(m) is true exactly when m is in the zone's modes list
\* or the zone reports no modes (list absent or empty); the mode setter raises
\* ValueError and sends nothing exactly when validate_mode is false, and
\* otherwise writes the mode
C16_ModeValidation ==
    [][(SetterStep /\ assign'.name = "mode" /\ zone_data.t = "dict")
       => LET modes == DataGet(zone_data, "modes", JsonList(<<>>))
              named(m) == modes.t = "list" /\ InList(m, modes)
              none  == "modes" \notin DOMAIN zone_data.fields \/ modes = JsonList(<<>>)
          IN  /\ \A m \in ModeValues : EntityValidateMode(zone_data, m) <=> (named(m) \/ none)
              /\ ~(named(assign'.value) \/ none)
                 => outcome' = PyError("ValueError") /\ http' = <<>>
              /\ (named(assign'.value) \/ none)
                 => /\ Len(http') >= 1
                    /\ http'[1].method = "PUT"
                    /\ http'[1].request.params
                         = DictOf(<<Item("mode", IntVal(assign'.value))>>)]_vars

C16_Witness ==
    /\ assign = [name |-> "mode", value |-> 3]
    /\ scenario.config = CoolingZone
    /\ outcome = Returned(None)
    /\ answer.status = OK
    /\ LocalField(zone_data, "mode") = IntVal(3)
    /\ DataGet(zone_data, "modes", NullValue) = IntList(<<2, 3>>)

\* the setpoints of test_zone_temperature_control
InitialSetpoint == 21
NewSetpoint     == 23

\* zone.refresh() made on the state a step leaves, the device answering 200
SubsequentRead ==
    ZoneRefresh(impl, use_cache, files', max_age, now', TheSystem, TheZone, zone_data',
                "get_zone", FALSE, Answer(OK, ZoneResponse(scenario.shape, dev_zone')))

ValueTruthy(v) ==
    CASE v.t = "list" -> Len(v.elems) > 0
      [] v.t = "dict" -> DOMAIN v.fields # {}
      [] v.t = "int"  -> v.i # 0
      [] v.t = "str"  -> v.s # ""
      [] OTHER        -> FALSE

\* AirzoneZone.__init__: self._data = data or {}
NewZone(s, z, data) ==
    [kind |-> "zone", system_id |-> s, zone_id |-> z,
     data |-> IF ValueTruthy(data) THEN data ELSE JsonObject(<<>>)]

\* what self.zones.get(zone_id) gives for a missing id
NoneZone == [kind |-> "none", system_id |-> 0, zone_id |-> 0, data |-> NullValue]

\* AirzoneSystem.__init__
NewSystem(s) == [system_id |-> s, zones |-> <<>>]

\* self.zones[zone_id] = zone
ZonesPut(zones, z, zone) == [k \in DOMAIN zones \cup {z} |-> IF k = z THEN zone ELSE zones[k]]

\* self.zones.get(zone_id)
ZonesGet(zones, z) == IF z \in DOMAIN zones THEN zones[z] ELSE NoneZone

\* load_zones that reads the zone's ID under "zoneID" only
RECURSIVE LoadRows_ZoneIdOnly(_, _, _)
LoadRows_ZoneIdOnly(zones, s, rows) ==
    IF rows = <<>> THEN zones
    ELSE LoadRows_ZoneIdOnly(IF DataGet(Head(rows), "systemID", NullValue) = IntVal(s)
                                /\ DataGet(Head(rows), "zoneID", NullValue) # NullValue
                             THEN ZonesPut(zones, DataGet(Head(rows), "zoneID", NullValue).i,
                                           NewZone(s, DataGet(Head(rows), "zoneID", NullValue).i,
                                                   Head(rows)))
                             ELSE zones,
                             s, Tail(rows))

\* load_zones, the loop over the zones of one entry of "systems"
RECURSIVE LoadRows(_, _, _)
LoadRows(zones, s, rows) ==
    IF rows = <<>> THEN zones
    ELSE LET zone_info == Head(rows)
             id        == DataGet(zone_info, "id", NullValue)
             zone_id   == IF ValueTruthy(id) THEN id ELSE DataGet(zone_info, "zoneID", NullValue)
         IN  LoadRows(IF DataGet(zone_info, "systemID", NullValue) = IntVal(s)
                         /\ zone_id # NullValue
                      THEN ZonesPut(zones, zone_id.i, NewZone(s, zone_id.i, zone_info))
                      ELSE zones,
                      s, Tail(rows))

\* load_zones, the loop over "systems"
RECURSIVE LoadSystems(_, _, _)
LoadSystems(zones, s, systems) ==
    IF systems = <<>> THEN zones
    ELSE LET sys == Head(systems)
         IN  LoadSystems(IF sys.t = "dict" /\ "data" \in DOMAIN sys.fields
                         THEN LoadRows(zones, s, sys.fields["data"].elems)
                         ELSE zones,
                         s, Tail(systems))

SystemResult(fs, reqs, out, zones) ==
    [files |-> fs, http |-> reqs, outcome |-> out, zones |-> zones]

\* load_zones, once get_all_zones has answered
ZonesLoaded(sys, read) ==
    IF read.outcome.kind = "raised"
    THEN SystemResult(read.files, read.http, Raised, sys.zones)
    ELSE SystemResult(read.files, read.http, Returned(None),
                      IF IsDict(read.outcome.doc) /\ HasKey(read.outcome.doc, "systems")
                      THEN LoadSystems(sys.zones, sys.system_id,
                                       DocGet(read.outcome.doc, "systems").elems)
                      ELSE sys.zones)

\* AirzoneSystem.load_zones (both modules)
load_zones(im, uc, fs, maxAge, t, sys, force_refresh, ans) == ZonesLoaded(sys, ReadCall(im, uc, fs, maxAge, t, "get_all_zones", AllZones, AllZones, Absent, force_refresh, ans))

\* the fall back to load_zones, after the requests get_zone sent
FellBack(reqs, fallback) ==
    SystemResult(fallback.files, reqs \o fallback.http, fallback.outcome, fallback.zones)

\* src/src/system.py AirzoneSystem.get_zone, once client.get_zone has answered
System_zone_read(uc, maxAge, t, sys, zone_id, force_refresh, all_ans, read, data) ==
    IF read.outcome.kind = "raised"
    THEN SystemResult(read.files, read.http, Raised, sys.zones)
    ELSE IF HasKey(read.outcome.doc, "data") /\ ValueTruthy(data)
    THEN IF data.t = "list"
         THEN SystemResult(read.files, read.http, Returned(None),
                           ZonesPut(sys.zones, zone_id,
                                    NewZone(sys.system_id, zone_id, data.elems[1])))
         ELSE SystemResult(read.files, read.http, PyError("KeyError"), sys.zones)
    ELSE FellBack(read.http, load_zones("client", uc, read.files, maxAge, t, sys,
                                        force_refresh, all_ans))

System_zone_data(uc, maxAge, t, sys, zone_id, force_refresh, all_ans, read) == System_zone_read(uc, maxAge, t, sys, zone_id, force_refresh, all_ans, read, DocGet(read.outcome.doc, "data"))

\* src/src/system.py AirzoneSystem.get_zone, up to the return statement
System_get_zone(uc, fs, maxAge, t, sys, zone_id, force_refresh, zone_ans, all_ans) ==
    IF zone_id \in DOMAIN sys.zones /\ ~force_refresh
    THEN SystemResult(fs, <<>>, Returned(None), sys.zones)
    ELSE System_zone_data(uc, maxAge, t, sys, zone_id, force_refresh, all_ans,
                          ReadCall("client", uc, fs, maxAge, t, "get_zone", sys.system_id,
                                   zone_id, Absent, force_refresh, zone_ans))

\* src/src/airzone_client.py AirzoneSystem.get_zone, once client.get_zone
\* has answered
Flat_zone_read(uc, maxAge, t, sys, zone_id, force_refresh, all_ans, read, zone_list) ==
    IF read.outcome.kind = "raised"
    THEN FellBack(read.http, load_zones("flat", uc, read.files, maxAge, t, sys,
                                        force_refresh, all_ans))
    ELSE IF IsDict(read.outcome.doc) /\ HasKey(read.outcome.doc, "data")
    THEN SystemResult(read.files, read.http, Returned(None),
                      ZonesPut(sys.zones, zone_id,
                               NewZone(sys.system_id, zone_id,
                                       IF zone_list.t = "list" /\ Len(zone_list.elems) > 0
                                       THEN zone_list.elems[1] ELSE zone_list)))
    ELSE SystemResult(read.files, read.http, Returned(None), sys.zones)

Flat_zone_data(uc, maxAge, t, sys, zone_id, force_refresh, all_ans, read) == Flat_zone_read(uc, maxAge, t, sys, zone_id, force_refresh, all_ans, read, DocGet(read.outcome.doc, "data"))

\* src/src/airzone_client.py AirzoneSystem.get_zone, up to the return statement
Flat_System_get_zone(uc, fs, maxAge, t, sys, zone_id, force_refresh, zone_ans, all_ans) ==
    IF zone_id \in DOMAIN sys.zones /\ ~force_refresh
    THEN SystemResult(fs, <<>>, Returned(None), sys.zones)
    ELSE Flat_zone_data(uc, maxAge, t, sys, zone_id, force_refresh, all_ans,
                        ReadCall("flat", uc, fs, maxAge, t, "get_zone", sys.system_id,
                                 zone_id, Absent, force_refresh, zone_ans))

\* system.get_zone(zone_id, force_refresh) of either module
SystemGetZone(im, uc, fs, maxAge, t, sys, zone_id, force_refresh, zone_ans, all_ans) ==
    IF im = "client"
    THEN System_get_zone(uc, fs, maxAge, t, sys, zone_id, force_refresh, zone_ans, all_ans)
    ELSE Flat_System_get_zone(uc, fs, maxAge, t, sys, zone_id, force_refresh, zone_ans,
                              all_ans)

(***************************************************************************)
(* The command line (src/cli/airzone_cli.py), which uses the classes of    *)
(* src/src/airzone_client.py.  A command gives the cache, the requests     *)
(* sent, what it printed (report), whether an exception left the command   *)
(* function (escaped), and the System and Zone it built.                   *)
(***************************************************************************)
CommandResult(fs, reqs, report, escaped, sys, zone) ==
    [files |-> fs, http |-> reqs, report |-> report, escaped |-> escaped,
     system |-> sys, zone |-> zone]

\* the System a command holds after system.get_zone
SystemAfter(s, res) == [system_id |-> s, zones |-> res.zones]

\* get_zone_status, once system.get_zone has returned zone
StatusOf(res, sys, zone) ==
    IF res.outcome.kind # "returned"
    THEN CommandResult(res.files, res.http, "error", FALSE, sys, NoZone)
    ELSE IF zone = NoneZone
    THEN CommandResult(res.files, res.http, "not_found", FALSE, sys, zone)
    ELSE IF zone.data.t # "dict"
    THEN CommandResult(res.files, res.http, "error", FALSE, sys, zone)
    ELSE CommandResult(res.files, res.http, "status", FALSE, sys, zone)

StatusGot(s, z, res) == StatusOf(res, SystemAfter(s, res), ZonesGet(res.zones, z))

\* get_zone_status(client, system_id, zone_id, force_refresh=...)
get_zone_status(uc, fs, maxAge, t, s, z, force_refresh, zone_ans, all_ans) == StatusGot(s, z, Flat_System_get_zone(uc, fs, maxAge, t, NewSystem(s), z, force_refresh, zone_ans, all_ans))

\* what control_zone compares an option with before it assigns it
CurrentValue(data, name) ==
    CASE name \in {"on", "vertical_swing", "horizontal_swing"} ->
            IF DataGet(data, FieldOf(name), IntVal(0)) = IntVal(1) THEN IntVal(1) ELSE IntVal(0)
      [] name \in {"slats_vertical", "slats_horizontal"} ->
            DataGet(data, FieldOf(name), NullValue)
      [] OTHER -> DataGet(data, FieldOf(name), IntVal(0))

\* the options of the control command
ControlOptions ==
    {"on", "setpoint", "mode", "sleep_timer", "fan_speed", "slats_vertical",
     "slats_horizontal", "vertical_swing", "horizontal_swing"}

\* control_zone, the zone.refresh() after the assignment
ControlRefreshed(res, sys, zone, set, final) ==
    CommandResult(final.files, res.http \o set.http \o final.http,
                  IF final.outcome.kind # "returned" \/ final.data.t # "dict"
                  THEN "error" ELSE "controlled",
                  FALSE, sys, [zone EXCEPT !.data = final.data])

\* control_zone, once the option has been assigned
ControlSet(uc, maxAge, t, s, z, name, get_ans, res, sys, zone, set) ==
    IF name = "fan_speed" /\ set.outcome = PyError("ValueError")
    THEN CommandResult(set.files, res.http \o set.http, "fan_speed_error", FALSE, sys,
                       [zone EXCEPT !.data = set.data])
    ELSE IF set.outcome.kind # "returned"
    THEN CommandResult(set.files, res.http \o set.http, "error", FALSE, sys,
                       [zone EXCEPT !.data = set.data])
    ELSE ControlRefreshed(res, sys, zone, set,
                          ZoneRefresh("flat", uc, set.files, maxAge, t, s, z, set.data,
                                      "get_zone", FALSE, get_ans))

\* control_zone, once system.get_zone has returned zone
ControlZone(uc, maxAge, t, s, z, name, value, put_ans, get_ans, res, sys, zone) ==
    IF res.outcome.kind # "returned"
    THEN CommandResult(res.files, res.http, "error", FALSE, sys, NoZone)
    ELSE IF zone = NoneZone
    THEN CommandResult(res.files, res.http, "not_found", FALSE, sys, zone)
    ELSE IF zone.data.t # "dict"
    THEN CommandResult(res.files, res.http, "error", FALSE, sys, zone)
    ELSE IF CurrentValue(zone.data, name) = IntVal(value)
    THEN CommandResult(res.files, res.http, "no_change", FALSE, sys, zone)
    ELSE ControlSet(uc, maxAge, t, s, z, name, get_ans, res, sys, zone,
                    ZoneSetter("flat", uc, res.files, maxAge, t, s, z, zone.data, name,
                               value, put_ans, get_ans))

ControlGot(uc, maxAge, t, s, z, name, value, put_ans, get_ans, res) == ControlZone(uc, maxAge, t, s, z, name, value, put_ans, get_ans, res, SystemAfter(s, res), ZonesGet(res.zones, z))

\* control_zone(client, system_id, zone_id, <one option>=value)
control_zone(uc, fs, maxAge, t, s, z, name, value, zone_ans, all_ans, put_ans, get_ans) == ControlGot(uc, maxAge, t, s, z, name, value, put_ans, get_ans, Flat_System_get_zone(uc, fs, maxAge, t, NewSystem(s), z, FALSE, zone_ans, all_ans))

\* list_systems, the all_zones property after an empty load_zones
ListAgain(sys, first, again) ==
    IF again.outcome.kind # "returned"
    THEN CommandResult(again.files, first.http \o again.http, "error", TRUE, sys, NoZone)
    ELSE CommandResult(again.files, first.http \o again.http, "listed", FALSE,
                       [sys EXCEPT !.zones = again.zones], NoZone)

\* list_systems, once system.load_zones has run
ListLoaded(uc, maxAge, t, sys, zones_ans, first) ==
    IF first.outcome.kind # "returned"
    THEN CommandResult(first.files, first.http, "error", TRUE, sys, NoZone)
    ELSE IF DOMAIN first.zones # {}
    THEN CommandResult(first.files, first.http, "listed", FALSE,
                       [sys EXCEPT !.zones = first.zones], NoZone)
    ELSE ListAgain(sys, first,
                   load_zones("flat", uc, first.files, maxAge, t,
                              [sys EXCEPT !.zones = first.zones], FALSE, zones_ans))

ListSystem(uc, fs, maxAge, t, sys, force_refresh, zones_ans) == ListLoaded(uc, maxAge, t, sys, zones_ans, load_zones("flat", uc, fs, maxAge, t, sys, force_refresh, zones_ans))

\* list_systems, the loop body for one entry of "systems": load_zones, then
\* the all_zones property, which loads again while self.zones is empty
ListOneSystem(uc, fs, maxAge, t, system_data, force_refresh, zones_ans) == ListSystem(uc, fs, maxAge, t, NewSystem(DataGet(system_data, "systemID", NullValue).i), force_refresh, zones_ans)

ListedOne(sent, one) ==
    CommandResult(one.files, sent \o one.http, one.report, one.escaped, one.system, NoZone)

\* list_systems, once get_all_systems has answered
ListSystems(uc, maxAge, t, force_refresh, zones_ans, reqs, systems_data) ==
    IF systems_data.outcome.kind = "raised"
    THEN CommandResult(systems_data.files, reqs \o systems_data.http, "error", TRUE,
                       NoSystem, NoZone)
    ELSE IF ~HasKey(systems_data.outcome.doc, "systems")
    THEN CommandResult(systems_data.files, reqs \o systems_data.http, "no_systems", FALSE,
                       NoSystem, NoZone)
    ELSE ListedOne(reqs \o systems_data.http,
                   ListOneSystem(uc, systems_data.files, maxAge, t,
                                 DocGet(systems_data.outcome.doc, "systems").elems[1],
                                 force_refresh, zones_ans))

\* list_systems, once get_webserver_info has answered
ListWebserver(uc, maxAge, t, force_refresh, systems_ans, zones_ans, reqs, webserver_info) ==
    IF webserver_info.outcome.kind = "raised"
    THEN CommandResult(webserver_info.files, reqs \o webserver_info.http,
                       "connection_failed", FALSE, NoSystem, NoZone)
    ELSE ListSystems(uc, maxAge, t, force_refresh, zones_ans, reqs \o webserver_info.http,
                     ReadCall("flat", uc, webserver_info.files, maxAge, t,
                              "get_all_systems", Absent, Absent, Absent, force_refresh,
                              systems_ans))

\* list_systems, once get_version has answered
ListVersion(uc, maxAge, t, force_refresh, webserver_ans, systems_ans, zones_ans, version_data) ==
    IF version_data.outcome.kind = "raised"
    THEN CommandResult(version_data.files, version_data.http, "connection_failed",
                       FALSE, NoSystem, NoZone)
    ELSE ListWebserver(uc, maxAge, t, force_refresh, systems_ans, zones_ans,
                       version_data.http,
                       ReadCall("flat", uc, version_data.files, maxAge, t,
                                "get_webserver_info", Absent, Absent, Absent, FALSE,
                                webserver_ans))

\* list_systems(client, force_refresh=...), for a device that lists one system
list_systems(uc, fs, maxAge, t, force_refresh, version_ans, webserver_ans, systems_ans, zones_ans) == ListVersion(uc, maxAge, t, force_refresh, webserver_ans, systems_ans, zones_ans, ReadCall("flat", uc, fs, maxAge, t, "get_version", Absent, Absent, Absent, FALSE, version_ans))

\* main(): 1 when an exception reaches its handler, 0 otherwise
main(command) == IF command.escaped THEN 1 ELSE 0

(***************************************************************************)
(* SpecCli: a client, the device, the library's AirzoneSystem objects and  *)
(* the commands status, control and list.  The device holds the zone       *)
(* (TheSystem, TheZone), or no zone at all when the run's shape is         *)
(* "empty"; it answers a request for all systems with its list of systems, *)
(* a request for all zones with the zones it holds, and a request for a    *)
(* zone it does not hold with an empty data list.  The runs with the cache *)
(* on are those of a device that holds no zone.                            *)
(***************************************************************************)
CliScenarios ==
    {Scenario(HeatingZone, "setpoint", "list"),
     Scenario(CoolingZone, "fan_speed", "list"),
     Scenario(BareZone, "sleep_timer", "list"),
     Scenario(BareZone, "setpoint", "empty")}

\* the ids a caller passes: the zone the device may hold and the two sentinels
CliSystemIds == {TheSystem, AllSystems, AllZones}
CliZoneIds   == {TheZone, AllZones}

\* the --system and --zone a command is given
CliTargets == {<<TheSystem, TheZone>>, <<AllSystems, TheZone>>}

\* the values the control command is given
ControlValues(name) ==
    CASE name = "setpoint"    -> {23}
      [] name = "fan_speed"   -> {2, 5}
      [] name = "sleep_timer" -> {30, 1441}
      [] OTHER                -> SetterValues(name)

\* the device answers, or it cannot be reached
CliStatuses == {OK, TransportFailure}

SystemsDoc == DictOf(<<Item("systems", SystemsValue)>>)

AllZonesDoc(shape, row) ==
    DictOf(<<Item("systems",
                  AllZonesValue(IF shape = "empty" THEN <<>> ELSE <<JsonObject(row)>>))>>)

\* the device's answer to the hvac query {systemID: s, zoneID: z}
DeviceZoneDoc(shape, row, s, z) ==
    IF s = AllSystems THEN SystemsDoc
    ELSE IF s = AllZones /\ z = AllZones THEN AllZonesDoc(shape, row)
    ELSE IF s = TheSystem /\ z = TheZone /\ shape # "empty" THEN ZoneResponse(shape, row)
    ELSE IF s = TheSystem /\ z = AllZones /\ shape # "empty" THEN ZoneResponse("list", row)
    ELSE ZoneResponse("empty", row)

Sent(reqs, r) == \E n \in 1..Len(reqs) : reqs[n].request = r

Report(kind) == [kind |-> kind, doc |-> None]

CliCall(op, s, z, force_refresh) ==
    [op |-> op, request |-> Request("hvac", FALSE, s, z, Absent, EmptyDict),
     force_refresh |-> force_refresh]

CliInit ==
    /\ files = NoFiles
    /\ now = 0
    /\ max_age = MaxAge
    /\ cop = NoCacheOp
    /\ written = NoWritten
    /\ KeyIdle
    /\ impl \in {"client", "flat"}
    /\ use_cache \in BOOLEAN
    /\ device = EmptyDict
    /\ family = "hvac"
    /\ call = NoCall
    /\ http = <<>>
    /\ answer = NoAnswer
    /\ before = NoBefore
    /\ outcome = NoOutcome
    /\ scenario \in CliScenarios
    /\ use_cache => scenario.shape = "empty"
    /\ dev_zone = scenario.config
    /\ zone_data = JsonObject(<<>>)
    /\ assign = NoAssign
    /\ reread = NoAnswer
    /\ system = NoSystem
    /\ found = NoZone
    /\ exit_code = 0
    /\ backup = NoBackup
    /\ host = NoHost

\* system = AirzoneSystem(client, s)
Construct(s) ==
    /\ system' = NewSystem(s)
    /\ found' = NoZone
    /\ call' = CliCall("AirzoneSystem", s, Absent, FALSE)
    /\ http' = <<>>
    /\ outcome' = Returned(None)
    /\ answer' = NoAnswer
    /\ reread' = NoAnswer
    /\ assign' = NoAssign
    /\ UNCHANGED <<files, now, max_age, cop, written, keyVars, impl, use_cache, device,
                   family, before, scenario, backup, host, dev_zone, zone_data, exit_code>>

\* system.get_zone, its results stored
GetZoneDone(z, force_refresh, all_status, zone_ans, res) ==
    /\ call.op \in {"AirzoneSystem", "System.get_zone"}
    /\ system # NoSystem
    /\ files' = res.files
    /\ http' = res.http
    /\ outcome' = res.outcome
    /\ system' = [system EXCEPT !.zones = res.zones]
    /\ found' = IF res.outcome.kind = "returned" THEN ZonesGet(res.zones, z) ELSE NoZone
    /\ call' = CliCall("System.get_zone", system.system_id, z, force_refresh)
    /\ answer' = IF Sent(res.http, ReadRequest("get_zone", system.system_id, z, Absent))
                 THEN zone_ans ELSE NoAnswer
    /\ reread' = IF Sent(res.http, ReadRequest("get_all_zones", system.system_id, z, Absent))
                 THEN Answer(all_status, EmptyDict) ELSE NoAnswer
    /\ assign' = NoAssign
    /\ UNCHANGED <<now, max_age, cop, written, keyVars, impl, use_cache, device,
                   family, before, scenario, backup, host, dev_zone, zone_data, exit_code>>

GetZoneAnswered(z, force_refresh, all_status, zone_ans) == GetZoneDone(z, force_refresh, all_status, zone_ans, SystemGetZone(impl, use_cache, files, max_age, now, system, z, force_refresh, zone_ans, Answer(all_status, AllZonesDoc(scenario.shape, dev_zone))))

\* zone = system.get_zone(z, force_refresh) on the library's system object
GetZone(z, force_refresh, zone_status, all_status) == GetZoneAnswered(z, force_refresh, all_status, Answer(zone_status, DeviceZoneDoc(scenario.shape, dev_zone, system.system_id, z)))

\* what every command leaves behind
Command(op, s, z, force_refresh, res) ==
    /\ impl = "flat"
    /\ files' = res.files
    /\ http' = res.http
    /\ outcome' = Report(res.report)
    /\ system' = res.system
    /\ found' = res.zone
    /\ exit_code' = main(res)
    /\ call' = CliCall(op, s, z, force_refresh)
    /\ UNCHANGED <<now, max_age, cop, written, keyVars, impl, use_cache, device,
                   family, before, scenario, backup, host, zone_data>>

CliStatusDone(s, z, force_refresh, all_status, zone_ans, res) ==
    /\ Command("status", s, z, force_refresh, res)
    /\ answer' = IF Sent(res.http, ReadRequest("get_zone", s, z, Absent))
                 THEN zone_ans ELSE NoAnswer
    /\ reread' = IF Sent(res.http, ReadRequest("get_all_zones", s, z, Absent))
                 THEN Answer(all_status, EmptyDict) ELSE NoAnswer
    /\ assign' = NoAssign
    /\ UNCHANGED dev_zone

CliStatusAnswered(s, z, force_refresh, all_status, zone_ans) == CliStatusDone(s, z, force_refresh, all_status, zone_ans, get_zone_status(use_cache, files, max_age, now, s, z, force_refresh, zone_ans, Answer(all_status, AllZonesDoc(scenario.shape, dev_zone))))

\* airzone_cli.py [--force-refresh] status --system s --zone z
CliStatus(s, z, force_refresh, zone_status, all_status) == CliStatusAnswered(s, z, force_refresh, all_status, Answer(zone_status, DeviceZoneDoc(scenario.shape, dev_zone, s, z)))

\* a PUT was among the requests sent
Wrote(reqs) == \E n \in 1..Len(reqs) : reqs[n].method = "PUT"

CliControlDone(s, z, name, value, zone_status, put_status, after, res) ==
    /\ name \in ControlOptions
    /\ Command("control", s, z, FALSE, res)
    /\ dev_zone' = IF Wrote(res.http) THEN after ELSE dev_zone
    /\ answer' = IF Wrote(res.http) THEN Answer(put_status, EmptyDict) ELSE NoAnswer
    /\ reread' = IF Sent(res.http, ReadRequest("get_zone", s, z, Absent))
                 THEN Answer(zone_status, EmptyDict) ELSE NoAnswer
    /\ assign' = [name |-> name, value |-> value]

CliControlAfter(s, z, name, value, zone_status, put_status, get_status, after) == CliControlDone(s, z, name, value, zone_status, put_status, after, control_zone(use_cache, files, max_age, now, s, z, name, value, Answer(zone_status, DeviceZoneDoc(scenario.shape, dev_zone, s, z)), Answer(zone_status, AllZonesDoc(scenario.shape, dev_zone)), Answer(put_status, EmptyDict), Answer(get_status, DeviceZoneDoc(scenario.shape, after, s, z))))

\* airzone_cli.py control --system s --zone z --<option> value
CliControl(s, z, value, zone_status, put_status, get_status) == CliControlAfter(s, z, scenario.setter, value, zone_status, put_status, get_status, IF put_status = OK /\ s = TheSystem /\ z = TheZone /\ scenario.shape # "empty" THEN SetField(dev_zone, WireField("flat", scenario.setter), value) ELSE dev_zone)

CliListDone(force_refresh, version_status, res) ==
    /\ Command("list", AllSystems, Absent, force_refresh, res)
    /\ answer' = IF res.http # <<>> THEN Answer(version_status, EmptyDict) ELSE NoAnswer
    /\ reread' = NoAnswer
    /\ assign' = NoAssign
    /\ UNCHANGED dev_zone

\* airzone_cli.py [--force-refresh] list
CliList(force_refresh, version_status, webserver_status, systems_status, zones_status) == CliListDone(force_refresh, version_status, list_systems(use_cache, files, max_age, now, force_refresh, Answer(version_status, InfoDoc), Answer(webserver_status, InfoDoc), Answer(systems_status, SystemsDoc), Answer(zones_status, AllZonesDoc(scenario.shape, dev_zone))))

CliNext ==
    \/ \E s \in CliSystemIds : Construct(s)
    \/ \E z \in CliZoneIds, f \in BOOLEAN, zs \in CliStatuses, as \in CliStatuses :
          GetZone(z, f, zs, as)
    \/ \E target \in CliTargets, f \in BOOLEAN, zs \in CliStatuses, as \in CliStatuses :
          CliStatus(target[1], target[2], f, zs, as)
    \/ \E target \in CliTargets, value \in ControlValues(scenario.setter),
          zs \in CliStatuses, ps \in CliStatuses, gs \in CliStatuses :
          CliControl(target[1], target[2], value, zs, ps, gs)
    \/ \E f \in BOOLEAN, vs \in CliStatuses, ws \in CliStatuses, ss \in CliStatuses,
          as \in CliStatuses :
          CliList(f, vs, ws, ss, as)

SpecCli == CliInit /\ [][CliNext]_vars

\* the device's answer to get_zone names no zone
NoEntry(doc) == IsDict(doc) /\ HasKey(doc, "data") /\ DocGet(doc, "data") = JsonList(<<>>)

\* a step in which system.get_zone ran (in the library or in the status
\* command) for a zone the device does not hold, every request it sent being
\* answered with 200
GetZoneOfMissingZone ==
    /\ call'.op \in {"System.get_zone", "status"}
    /\ call'.op = "System.get_zone" => call.op \in {"AirzoneSystem", "System.get_zone"}
    /\ scenario.shape = "empty"
    /\ call'.request.zoneID = TheZone
    /\ call'.request.systemID = TheSystem
    /\ answer'.status = OK
    /\ NoEntry(answer'.doc)
    /\ reread'.status \in {OK, NoAnswer.status}

\* C18: when the device's answer holds no entry for the requested zone,
\* System.get_zone returns None without raising and holds no Zone for that
\* id afterwards, in both implementations
C18_MissingZoneIsNone ==
    [][GetZoneOfMissingZone
       => /\ found' = NoneZone
          /\ outcome'.kind \in {"returned", "not_found"}
          /\ TheZone \notin DOMAIN system'.zones]_vars

\* what a command prints when it reports a failure: "Error getting zone
\* status" / "Error controlling zone" / "Error: ..." (error), "Fan Speed
\* Error" and "Status: Connection failed"
FailureReports == {"error", "fan_speed_error", "connection_failed"}

\* C19: main() returns 1 whenever the command reported a failure and 0 only
\* when it did not
C19_ExitCodeReportsFailure ==
    call.op \in {"status", "control", "list"}
        => (exit_code = 1 <=> outcome.kind \in FailureReports)

\* the Zone objects a state holds: the one last returned and those of the system
ZoneEntities ==
    {zone \in {found} \cup {system.zones[z] : z \in DOMAIN system.zones} : zone.kind = "zone"}

\* C20: no System carries the id 127 and no Zone the ids (0, 0)
C20_NoWildcardEntity ==
    /\ system # NoSystem => system.system_id # AllSystems
    /\ \A zone \in ZoneEntities : ~(zone.system_id = AllZones /\ zone.zone_id = AllZones)

(***************************************************************************)
(* AirzoneBackup (src/src/airzone_backup.py, on the client of              *)
(* src/src/client.py; src/airzone_backup.py, the script, on the flat       *)
(* client).  A backup file is a JSON object of sections; a section is a    *)
(* value tree.                                                             *)
(***************************************************************************)
BackupFile(text) == [exists |-> TRUE, text |-> text]

MissingFile == [exists |-> FALSE, text |-> <<>>]

\* key in value, for a value tree: a key of an object, an element of a
\* list, a substring of a string; TypeError for a number or null
Substrings == {<<"host", "test-host">>, <<"host", "other-host">>}

PyIn(key, v) ==
    CASE v.t = "dict" -> IF key \in DOMAIN v.fields THEN "true" ELSE "false"
      [] v.t = "list" -> IF \E n \in 1..Len(v.elems) : v.elems[n] = StrVal(key)
                         THEN "true" ELSE "false"
      [] v.t = "str"  -> IF v.s = key \/ <<key, v.s>> \in Substrings THEN "true" ELSE "false"
      [] OTHER        -> "TypeError"

\* key in backup_data, for the document json.load gave
DocIn(key, d) ==
    IF d.kind = "dict" THEN HasKey(d, key)
    ELSE \E n \in 1..Len(d.items) : d.items[n].v = StrVal(key)

required_keys == <<"webserver", "systems", "zones", "metadata">>

\* validate_backup without its check for systems
SectionsChecked_NoSystems(metadata, systems) ==
    PyIn("host", metadata) = "true" /\ PyIn("port", metadata) = "true"

\* validate_backup, the checks of metadata and of the systems section; an
\* exception raised by a check is caught and gives False
SectionsChecked(metadata, systems) ==
    /\ PyIn("host", metadata) = "true"
    /\ PyIn("port", metadata) = "true"
    /\ PyIn("systems", systems) = "true"

\* validate_backup, once json.load has returned backup_data
Validated(backup_data) ==
    IF backup_data.kind \notin {"dict", "list"} THEN FALSE
    ELSE IF \E n \in 1..Len(required_keys) : ~DocIn(required_keys[n], backup_data) THEN FALSE
    ELSE IF backup_data.kind = "list" THEN FALSE
    ELSE SectionsChecked(DocGet(backup_data, "metadata"), DocGet(backup_data, "systems"))

\* AirzoneBackup.validate_backup(backup_file)
validate_backup(file) == IF ~file.exists THEN FALSE ELSE Validated(JsonLoad(file.text))

\* a document as a section of cache_data
DocTree(doc) ==
    IF IsDict(doc) THEN DocAsValue(doc)
    ELSE JsonList([n \in 1..Len(doc.items) |-> doc.items[n].v])

\* if data: cache_data[key] = data
WithSection(items, key, doc) ==
    IF Truthy(doc) THEN Append(items, Item(key, DocTree(doc))) ELSE items

\* what a call of AirzoneBackup leaves: the cache, the requests sent, how it
\* ended and the backup file
BackupResult(fs, reqs, out, file) == [files |-> fs, http |-> reqs, outcome |-> out, file |-> file]

\* get_version().get("version", "Unknown")
VersionOf(doc) == IF HasKey(doc, "version") THEN DocGet(doc, "version") ELSE StrVal("Unknown")

\* create_backup, from get_version on: the metadata, then json.dump
CreateVersion(h, p, file, items, reqs, read) ==
    IF read.outcome.kind = "raised"
    THEN BackupResult(read.files, reqs \o read.http, Raised, file)
    ELSE IF ~IsDict(read.outcome.doc)
    THEN BackupResult(read.files, reqs \o read.http, PyError("AttributeError"), file)
    ELSE BackupResult(read.files, reqs \o read.http, Returned(None),
                      BackupFile(JsonDump(DictOf(Append(items,
                          Item("metadata", Metadata(h, p, VersionOf(read.outcome.doc))))))))

\* create_backup, from get_all_zones on
CreateZones(im, uc, maxAge, t, h, p, file, items, reqs, version_ans, read) ==
    IF read.outcome.kind = "raised"
    THEN BackupResult(read.files, reqs \o read.http, Raised, file)
    ELSE CreateVersion(h, p, file, WithSection(items, "zones", read.outcome.doc),
                       reqs \o read.http,
                       ReadCall(im, uc, read.files, maxAge, t, "get_version", Absent, Absent,
                                Absent, FALSE, version_ans))

\* create_backup, from get_all_systems on
CreateSystems(im, uc, maxAge, t, h, p, file, items, reqs, zones_ans, version_ans, read) ==
    IF read.outcome.kind = "raised"
    THEN BackupResult(read.files, reqs \o read.http, Raised, file)
    ELSE CreateZones(im, uc, maxAge, t, h, p, file,
                     WithSection(items, "systems", read.outcome.doc), reqs \o read.http,
                     version_ans,
                     ReadCall(im, uc, read.files, maxAge, t, "get_all_zones", Absent, Absent,
                              Absent, FALSE, zones_ans))

\* create_backup, from get_webserver_info on
CreateWebserver(im, uc, maxAge, t, h, p, file, systems_ans, zones_ans, version_ans, read) ==
    IF read.outcome.kind = "raised"
    THEN BackupResult(read.files, read.http, Raised, file)
    ELSE CreateSystems(im, uc, maxAge, t, h, p, file,
                       WithSection(<<>>, "webserver", read.outcome.doc), read.http,
                       zones_ans, version_ans,
                       ReadCall(im, uc, read.files, maxAge, t, "get_all_systems", Absent,
                                Absent, Absent, FALSE, systems_ans))

\* AirzoneBackup.create_backup(filename), file being what filename holds
create_backup(im, uc, fs, maxAge, t, h, p, file, webserver_ans, systems_ans, zones_ans, version_ans) == CreateWebserver(im, uc, maxAge, t, h, p, file, systems_ans, zones_ans, version_ans, ReadCall(im, uc, fs, maxAge, t, "get_webserver_info", Absent, Absent, Absent, FALSE, webserver_ans))

\* the zones of an "all zones" document, stored or current: those of "data",
\* or else those of every entry of "systems" that has "data"
RECURSIVE SystemsZones(_)
SystemsZones(systems) ==
    IF systems = <<>> THEN <<>>
    ELSE (IF PyIn("data", Head(systems)) = "true" THEN Head(systems).fields["data"].elems
          ELSE <<>>) \o SystemsZones(Tail(systems))

ZonesIn(zones_data) ==
    IF zones_data.t # "dict" THEN <<>>
    ELSE IF PyIn("data", zones_data) = "true" THEN zones_data.fields["data"].elems
    ELSE IF PyIn("systems", zones_data) = "true"
    THEN SystemsZones(zones_data.fields["systems"].elems)
    ELSE <<>>

\* whether the tests "data" in v, "systems" in v and what follows them run
\* without an exception
Listable(v) ==
    \/ v.t = "dict"
    \/ v.t \in {"list", "str"} /\ PyIn("data", v) = "false" /\ PyIn("systems", v) = "false"

\* current_zone_map.get(f"{system_id}_{zone_id}"): the last zone listed
\* with these ids, None when there is none
RECURSIVE CurrentZone(_, _, _)
CurrentZone(zones, s, z) ==
    IF zones = <<>> THEN NullValue
    ELSE IF /\ DataGet(zones[Len(zones)], "systemID", NullValue) = s
            /\ DataGet(zones[Len(zones)], "zoneID", NullValue) = z
    THEN zones[Len(zones)]
    ELSE CurrentZone(SubSeq(zones, 1, Len(zones) - 1), s, z)

\* the parameters restore_from_backup compares, in its order
RestoreFields == <<"on", "setpoint", "mode", "sleep", "speed", "slats_vertical",
                   "slats_horizontal", "slats_vswing", "slats_hswing">>

\* the value restore writes for a parameter
BackupValue(f, backup_zone) ==
    DataGet(backup_zone, f, IF f = "on" THEN IntVal(0) ELSE NullValue)

\* the test that decides whether a parameter is written
NeedsRestore(f, backup_zone, current_zone) ==
    CASE f = "on"    -> BackupValue(f, backup_zone) # DataGet(current_zone, f, IntVal(0))
      [] f = "mode"  -> /\ BackupValue(f, backup_zone) # NullValue
                        /\ BackupValue(f, backup_zone) # DataGet(current_zone, f, NullValue)
      [] f = "speed" -> /\ BackupValue(f, backup_zone) # NullValue
                        /\ DataGet(current_zone, f, NullValue) # NullValue
                        /\ BackupValue(f, backup_zone) # DataGet(current_zone, f, NullValue)
                        /\ \/ ValueTruthy(DataGet(backup_zone, "speed_values", NullValue))
                           \/ ValueTruthy(DataGet(current_zone, "speed_values", NullValue))
      [] OTHER       -> /\ BackupValue(f, backup_zone) # NullValue
                        /\ DataGet(current_zone, f, NullValue) # NullValue
                        /\ BackupValue(f, backup_zone) # DataGet(current_zone, f, NullValue)

\* the parameters of a zone that restore writes, in order
Changes(backup_zone, current_zone) ==
    SelectSeq(RestoreFields, LAMBDA f : NeedsRestore(f, backup_zone, current_zone))

\* the progress of a restore: the cache, the requests sent and the counts
Progress(fs, reqs, restored, failed) ==
    [files |-> fs, http |-> reqs, restored |-> restored, failed |-> failed]

\* the set_zone_parameters calls for one zone, until one raises
RECURSIVE PutEach(_, _, _, _, _, _, _, _, _, _)
PutAnswered(im, uc, maxAge, t, s, z, backup_zone, fields, ans, acc, res) ==
    IF res.outcome.kind = "raised"
    THEN Progress(res.files, acc.http \o res.http, acc.restored, acc.failed + 1)
    ELSE PutEach(im, uc, maxAge, t, s, z, backup_zone, Tail(fields), ans,
                 Progress(res.files, acc.http \o res.http, acc.restored, acc.failed))

PutEach(im, uc, maxAge, t, s, z, backup_zone, fields, ans, acc) ==
    IF fields = <<>> THEN Progress(acc.files, acc.http, acc.restored + 1, acc.failed)
    ELSE PutAnswered(im, uc, maxAge, t, s, z, backup_zone, fields, ans, acc,
                     set_zone_parameters(im, uc, acc.files, maxAge, t, s, z,
                                         DictOf(<<Item(Head(fields),
                                                       BackupValue(Head(fields), backup_zone))>>),
                                         ans))

\* restore_from_backup, one zone of the backup
RestoreZone(im, uc, maxAge, t, backup_zone, current_zone, fields, ans, acc, s, z) ==
    IF s = NullValue \/ z = NullValue THEN acc
    ELSE IF ~ValueTruthy(current_zone)
    THEN Progress(acc.files, acc.http, acc.restored, acc.failed + 1)
    ELSE IF fields = <<>> THEN acc
    ELSE PutEach(im, uc, maxAge, t, s.i, z.i, backup_zone, fields, ans,
                 acc)

\* restore_from_backup, the zones of the backup in turn
RECURSIVE RestoreEach(_, _, _, _, _, _, _, _)
RestoreEach(im, uc, maxAge, t, backup_zones, current_zones, ans, acc) ==
    IF backup_zones = <<>> THEN acc
    ELSE RestoreEach(im, uc, maxAge, t, Tail(backup_zones), current_zones, ans,
                     RestoreZone(im, uc, maxAge, t, Head(backup_zones),
                                 CurrentZone(current_zones,
                                             DataGet(Head(backup_zones), "systemID", NullValue),
                                             DataGet(Head(backup_zones), "zoneID", NullValue)),
                                 Changes(Head(backup_zones),
                                         CurrentZone(current_zones,
                                             DataGet(Head(backup_zones), "systemID", NullValue),
                                             DataGet(Head(backup_zones), "zoneID", NullValue))),
                                 ans, acc,
                                 DataGet(Head(backup_zones), "systemID", NullValue),
                                 DataGet(Head(backup_zones), "zoneID", NullValue)))

\* what restore_from_backup leaves: the cache, the requests sent, the result
Restored(fs, reqs, result) == [files |-> fs, http |-> reqs, result |-> result]

\* the summary: True without failures, else whether any zone was restored
Summary(acc) == Restored(acc.files, acc.http, IF acc.failed = 0 THEN TRUE ELSE acc.restored > 0)

\* restore_from_backup without dry_run, from get_all_zones on
RestoreApplied(im, uc, maxAge, t, zones_data, ans, read) ==
    IF read.outcome.kind = "raised" THEN Restored(read.files, read.http, FALSE)
    ELSE IF read.outcome.doc.kind \notin {"dict", "list"} THEN Restored(read.files, read.http, FALSE)
    ELSE IF ~Listable(DocTree(read.outcome.doc)) \/ ~Listable(zones_data)
    THEN Restored(read.files, read.http, FALSE)
    ELSE Summary(RestoreEach(im, uc, maxAge, t, ZonesIn(zones_data),
                             ZonesIn(DocTree(read.outcome.doc)), ans,
                             Progress(read.files, read.http, 0, 0)))

\* the preview of a dry run: True unless a section is not what it reads
DryRun(webserver, systems, metadata) ==
    /\ webserver.t = "dict"
    /\ systems.t = "dict"
    /\ metadata.t = "dict"
    /\ {"created", "host", "port"} \subseteq DOMAIN metadata.fields
    /\ DataGet(systems, "systems", JsonList(<<>>)).t = "list"
    /\ \A n \in 1..Len(DataGet(systems, "systems", JsonList(<<>>)).elems) :
           DataGet(systems, "systems", JsonList(<<>>)).elems[n].t = "dict"

\* restore_from_backup, once the backup is validated and loaded
RestoreLoaded(im, uc, fs, maxAge, t, backup_data, dry_run, zones_ans, put_ans) ==
    IF dry_run
    THEN Restored(fs, <<>>, DryRun(DocGet(backup_data, "webserver"),
                                   DocGet(backup_data, "systems"),
                                   DocGet(backup_data, "metadata")))
    ELSE IF im = "flat" THEN Restored(fs, <<>>, FALSE)
    ELSE RestoreApplied(im, uc, maxAge, t, DocGet(backup_data, "zones"), put_ans,
                        ReadCall(im, uc, fs, maxAge, t, "get_all_zones", Absent, Absent,
                                 Absent, FALSE, zones_ans))

\* restore without its validation of the backup
restore_from_backup_Unvalidated(im, uc, fs, maxAge, t, file, dry_run, zones_ans, put_ans) ==
    IF ~file.exists \/ JsonLoad(file.text).kind # "dict" THEN Restored(fs, <<>>, FALSE)
    ELSE RestoreLoaded(im, uc, fs, maxAge, t, JsonLoad(file.text), dry_run, zones_ans, put_ans)

\* AirzoneBackup.restore_from_backup(backup_file, dry_run); im = "flat" is
\* the script src/airzone_backup.py, which applies nothing
restore_from_backup(im, uc, fs, maxAge, t, file, dry_run, zones_ans, put_ans) ==
    IF ~validate_backup(file) THEN Restored(fs, <<>>, FALSE)
    ELSE RestoreLoaded(im, uc, fs, maxAge, t, JsonLoad(file.text), dry_run, zones_ans, put_ans)

(***************************************************************************)
(* SpecBackup: one AirzoneBackup on one client and one backup file; the    *)
(* device holds one zone and answers every read of a call alike.           *)
(***************************************************************************)
\* a backup document of the given sections
BackupDoc(webserver, systems, zones, metadata) ==
    DictOf(<<Item("webserver", webserver), Item("systems", systems), Item("zones", zones),
             Item("metadata", metadata)>>)

\* d without its n-th key
Dropped(d, n) == DictOf(SubSeq(d.items, 1, n - 1) \o SubSeq(d.items, n + 1, Len(d.items)))

\* the document create_backup writes of a device that holds every section
FullBackup == BackupDoc(WebserverSection, SystemsSection, ZonesSection(<<JsonObject(HeatingZone)>>), Metadata(Host, Port, StrVal("Unknown")))

\* the backup files a run starts with: none, one that is no JSON, a list of
\* the four names, the full document with one section replaced, and the
\* full document lacking one section
BackupFiles ==
    {MissingFile, BackupFile(<<"{">>),
     BackupFile(JsonDump(ListOf(<<StrVal("webserver"), StrVal("systems"), StrVal("zones"),
                                  StrVal("metadata")>>)))}
      \cup {BackupFile(JsonDump(DictSet(FullBackup, "systems", s))) : s \in SystemsSections}
      \cup {BackupFile(JsonDump(DictSet(FullBackup, "zones", z))) : z \in ZonesSections}
      \cup {BackupFile(JsonDump(DictSet(FullBackup, "metadata", m))) : m \in MetadataSections}
      \cup {BackupFile(JsonDump(DictSet(DictSet(FullBackup, "metadata", JsonList(<<StrVal("host"), StrVal("port")>>)), "systems", JsonObject(<<>>))))}
      \cup {BackupFile(JsonDump(Dropped(FullBackup, n))) : n \in 1..4}

\* what the device answers get_all_zones with
BackupZonesDoc(row) == DictOf(<<Item("systems", AllZonesValue(<<JsonObject(row)>>))>>)

BackupInit ==
    /\ files = NoFiles
    /\ now = 0
    /\ max_age = MaxAge
    /\ cop = NoCacheOp
    /\ written = NoWritten
    /\ KeyIdle
    /\ impl \in {"client", "flat"}
    /\ use_cache \in BOOLEAN
    /\ device = EmptyDict
    /\ family = "info"
    /\ call = NoCall
    /\ http = <<>>
    /\ answer = NoAnswer
    /\ before = NoBefore
    /\ outcome = NoOutcome
    /\ scenario = NoScenario
    /\ dev_zone \in BackupRows
    /\ zone_data = JsonObject(<<>>)
    /\ assign = NoAssign
    /\ reread = NoAnswer
    /\ system = NoSystem
    /\ found = NoZone
    /\ exit_code = 0
    /\ \E file \in BackupFiles :
           backup = [op |-> "none", exists |-> file.exists, text |-> file.text,
                     dry_run |-> FALSE, result |-> "none"]
    /\ host = NoHost

TheBackup == [exists |-> backup.exists, text |-> backup.text]

BackupFrame == UNCHANGED <<now, max_age, cop, written, keyVars, impl, use_cache, device, family,
                           call, answer, before, outcome, scenario, zone_data, assign, reread,
                           system, found, exit_code, host>>

\* backup_mgr.validate_backup(file)
BackupValidate ==
    /\ backup' = [backup EXCEPT !.op = "validate", !.dry_run = FALSE,
                                !.result = IF validate_backup(TheBackup) THEN "True" ELSE "False"]
    /\ http' = <<>>
    /\ UNCHANGED <<files, dev_zone>>
    /\ BackupFrame

CreateDone(res) ==
    /\ backup' = [op |-> "create", exists |-> res.file.exists, text |-> res.file.text,
                  dry_run |-> FALSE, result |-> res.outcome.kind]
    /\ http' = res.http
    /\ files' = res.files
    /\ UNCHANGED dev_zone
    /\ BackupFrame

\* backup_mgr.create_backup(file); the device holds the sections named in
\* held and answers the others with {}
BackupCreate(held, status) ==
    CreateDone(create_backup(impl, use_cache, files, max_age, now, Host, Port, TheBackup,
                   Answer(status, IF "webserver" \in held THEN InfoDoc ELSE EmptyDict),
                   Answer(status, IF "systems" \in held THEN SystemsDoc ELSE EmptyDict),
                   Answer(status, IF "zones" \in held THEN BackupZonesDoc(dev_zone) ELSE EmptyDict),
                   Answer(status, EmptyDict)))

\* the PUT requests among reqs
Puts(reqs) == SelectSeq(reqs, LAMBDA r : r.method = "PUT")

\* the device's zone once it has accepted the PUT requests puts
RECURSIVE Accepted(_, _)
Accepted(row, puts) ==
    IF puts = <<>> THEN row
    ELSE Accepted(SetField(row, Head(puts).request.params.items[1].k,
                           Head(puts).request.params.items[1].v.i), Tail(puts))

RestoreDone(dry_run, put_status, res) ==
    /\ backup' = [backup EXCEPT !.op = "restore", !.dry_run = dry_run,
                                !.result = IF res.result THEN "True" ELSE "False"]
    /\ http' = res.http
    /\ files' = res.files
    /\ dev_zone' = IF put_status = OK THEN Accepted(dev_zone, Puts(res.http)) ELSE dev_zone
    /\ BackupFrame

\* backup_mgr.restore_from_backup(file, dry_run)
BackupRestore(dry_run, get_status, put_status) ==
    RestoreDone(dry_run, put_status,
                restore_from_backup(impl, use_cache, files, max_age, now, TheBackup, dry_run,
                                    Answer(get_status, BackupZonesDoc(dev_zone)),
                                    Answer(put_status, EmptyDict)))

BackupNext ==
    \/ BackupValidate
    \/ \E held \in SUBSET {"webserver", "systems", "zones"}, st \in {OK, TransportFailure} :
          BackupCreate(held, st)
    \/ \E d \in BOOLEAN, g \in {OK, TransportFailure}, st \in {OK, ServerError} :
          BackupRestore(d, g, st)
    \/ Tick

SpecBackup == BackupInit /\ [][BackupNext]_vars

\* the document the backup file holds
TheDocument == JsonLoad(backup.text)

\* the backup file holds a JSON document
IsDocument == backup.exists /\ TheDocument.kind \in {"null", "list", "dict"}

\* the document is an object with the four top-level keys
HasSections ==
    /\ TheDocument.kind = "dict"
    /\ \A n \in 1..Len(required_keys) : HasKey(TheDocument, required_keys[n])

\* the section is an object with the key k
ObjectHas(section, k) == section.t = "dict" /\ k \in DOMAIN section.fields

HasHostAndPort ==
    /\ ObjectHas(DocGet(TheDocument, "metadata"), "host")
    /\ ObjectHas(DocGet(TheDocument, "metadata"), "port")

\* C21, as stated: validate_backup reports a document invalid if one of the
\* keys webserver, systems, zones, metadata is missing or metadata lacks host
\* or port, and reports valid every document with the four keys and
\* metadata.host and metadata.port.
C21_AsStated ==
    (backup.op = "validate" /\ IsDocument) =>
        (backup.result = "True" <=> (HasSections /\ HasHostAndPort))

\* C21, amended: validate_backup reports a document invalid if one of the
\* four keys is missing; a document with the four keys whose metadata and
\* systems sections are objects is reported valid exactly when metadata has
\* host and port and the systems section has the key systems.
C21_ValidateBackup ==
    (backup.op = "validate" /\ IsDocument) =>
        /\ ~HasSections => backup.result = "False"
        /\ (/\ HasSections
            /\ DocGet(TheDocument, "metadata").t = "dict"
            /\ DocGet(TheDocument, "systems").t = "dict")
           => (backup.result = "True" <=>
                  (HasHostAndPort /\ ObjectHas(DocGet(TheDocument, "systems"), "systems")))

\* a document of four sections with host and port was validated and accepted
C21_Witness ==
    /\ backup.op = "validate"
    /\ IsDocument
    /\ HasSections
    /\ HasHostAndPort
    /\ backup.result = "True"

\* C22: restore_from_backup writes to the device only if the backup file
\* passes validate_backup and dry_run is false; on an invalid backup it
\* returns False and sends no request, on a dry run it sends no write.
C22_RestoreWrites ==
    backup.op = "restore" =>
        /\ Puts(http) # <<>> => (validate_backup(TheBackup) /\ ~backup.dry_run)
        /\ ~validate_backup(TheBackup) => (backup.result = "False" /\ http = <<>>)
        /\ backup.dry_run => Puts(http) = <<>>

\* a restore of a valid backup wrote to the device
C22_Witness ==
    /\ backup.op = "restore"
    /\ ~backup.dry_run
    /\ validate_backup(TheBackup)
    /\ Puts(http) # <<>>

\* C30: every backup file create_backup writes is accepted by
\* validate_backup, whatever the device returned, empty documents included.
C30_CreatedIsValid ==
    (backup.op = "create" /\ backup.result = "returned") => validate_backup(TheBackup)

(***************************************************************************)
(* SpecFresh: one client reading and writing while the clock runs.  The    *)
(* device stamps every document it answers with the time of the request,   *)
(* so a document tells when it was fetched.  The records of the last call  *)
(* are dropped when the clock ticks.                                       *)
(***************************************************************************)
Stamped(t) == DictOf(<<Item("value", IntVal(t))>>)

FreshInit ==
    /\ files = NoFiles
    /\ now = 0
    /\ max_age \in 0..MaxAge
    /\ cop = NoCacheOp
    /\ written = NoWritten
    /\ KeyIdle
    /\ impl \in {"client", "flat"}
    /\ use_cache \in BOOLEAN
    /\ device = EmptyDict
    /\ family \in {"info", "hvac"}
    /\ call = NoCall
    /\ http = <<>>
    /\ answer = NoAnswer
    /\ before = NoBefore
    /\ outcome = NoOutcome
    /\ EntityIdle

\* client.<read method>(..., force_refresh), answered at time now
FreshRead(method, force_refresh, status) ==
    /\ method \in ReadMethods(family)
    /\ method = "get_demo_data" => ~force_refresh
    /\ Finish(method, ReadRequest(method, TheSystem, TheZone, Absent), force_refresh,
              {KeyOf(impl, ReadRequest(method, TheSystem, TheZone, Absent))} \ {NoKey},
              ReadCall(impl, use_cache, files, max_age, now, method, TheSystem, TheZone, Absent,
                       force_refresh, Answer(status, Stamped(now))),
              Answer(status, Stamped(now)))
    /\ UNCHANGED device

\* set_zone_parameters whose invalidations all fail: os.remove raises,
\* invalidate logs the error and answers False, the files stay
InvalidationsFailed(res, kept) == IF res.outcome.kind = "raised" THEN res ELSE Result(kept, res.http, res.outcome)

\* client.set_zone_parameters(s, z, parameters), its invalidations done or failed
FreshWrite(status, removed) ==
    /\ family = "hvac"
    /\ Finish("set_zone_parameters",
              Request("hvac", FALSE, TheSystem, TheZone, Absent, SetpointParams), FALSE,
              Range(ZoneWriteInvalidations(TheSystem, TheZone)),
              IF removed
              THEN set_zone_parameters(impl, use_cache, files, max_age, now, TheSystem, TheZone,
                                       SetpointParams, Answer(status, EmptyDict))
              ELSE InvalidationsFailed(set_zone_parameters(impl, use_cache, files, max_age, now,
                                           TheSystem, TheZone, SetpointParams,
                                           Answer(status, EmptyDict)), files),
              Answer(status, EmptyDict))
    /\ UNCHANGED device

FreshTick ==
    /\ now < MaxClock
    /\ now' = now + 1
    /\ call' = NoCall
    /\ http' = <<>>
    /\ answer' = NoAnswer
    /\ before' = NoBefore
    /\ outcome' = NoOutcome
    /\ UNCHANGED <<files, max_age, cop, written, keyVars, impl, use_cache, device, family,
                   entityVars>>

FreshNext ==
    \/ \E m \in ReadMethods(family), f \in BOOLEAN, st \in Statuses : FreshRead(m, f, st)
    \/ \E st \in Statuses, removed \in BOOLEAN : FreshWrite(st, removed)
    \/ FreshTick

SpecFresh == FreshInit /\ [][FreshNext]_vars

\* C23: every document a non-forced read returns was fetched from the
\* device at most max_age seconds before the read; serving an entry from the
\* cache never extends its lifetime.
C23_ServedWithinMaxAge ==
    (IsRead /\ ~call.force_refresh /\ outcome.kind = "returned") =>
        DocGet(outcome.doc, "value").i >= now - max_age

(***************************************************************************)
(* SpecSync: one client reading zones, systems and the aggregates and      *)
(* writing setpoints.  The device holds the zones DevZones; `device` is    *)
(* the setpoint of each, and changes only by an accepted write to that     *)
(* zone.                                                                   *)
(***************************************************************************)
\* what the device answers a read request with
DeviceAnswer(dev, r) ==
    IF r.systemID = AllSystems \/ (r.systemID = AllZones /\ r.zoneID = AllZones)
    THEN DictOf(<<Item("systems", AllRows(dev))>>)
    ELSE IF r.zoneID = Absent THEN DictOf(<<Item("data", SystemRows(dev))>>)
    ELSE DictOf(<<Item("data", JsonList(<<SyncRow(<<r.systemID, r.zoneID>>,
                                                   dev[<<r.systemID, r.zoneID>>])>>))>>)

SyncInit ==
    /\ files = NoFiles
    /\ now = 0
    /\ max_age = MaxAge
    /\ cop = NoCacheOp
    /\ written = NoWritten
    /\ KeyIdle
    /\ impl \in {"client", "flat"}
    /\ use_cache \in BOOLEAN
    /\ device = [k \in DevZones |-> 21]
    /\ family = "hvac"
    /\ call = NoCall
    /\ http = <<>>
    /\ answer = NoAnswer
    /\ before = NoBefore
    /\ outcome = NoOutcome
    /\ EntityIdle

\* client.get_zone / get_system / get_all_systems / get_all_zones
SyncRead(method, k, force_refresh, status) ==
    /\ Finish(method, ReadRequest(method, k[1], k[2], Absent), force_refresh,
              {KeyOf(impl, ReadRequest(method, k[1], k[2], Absent))} \ {NoKey},
              ReadCall(impl, use_cache, files, max_age, now, method, k[1], k[2], Absent,
                       force_refresh,
                       Answer(status, DeviceAnswer(device, ReadRequest(method, k[1], k[2], Absent)))),
              Answer(status, DeviceAnswer(device, ReadRequest(method, k[1], k[2], Absent))))
    /\ UNCHANGED device

\* client.set_zone_parameters(s, z, {"setpoint": v}); an accepted write
\* changes the setpoint of that zone
SyncWrite(k, v, status) ==
    /\ Finish("set_zone_parameters",
              Request("hvac", FALSE, k[1], k[2], Absent, DictOf(<<Item("setpoint", IntVal(v))>>)),
              FALSE, Range(ZoneWriteInvalidations(k[1], k[2])),
              set_zone_parameters(impl, use_cache, files, max_age, now, k[1], k[2],
                                  DictOf(<<Item("setpoint", IntVal(v))>>),
                                  Answer(status, EmptyDict)),
              Answer(status, EmptyDict))
    /\ device' = IF status = OK THEN [device EXCEPT ![k] = v] ELSE device

\* the clock stands still: an entry that expires is an entry that is absent,
\* which the runs reach without it
SyncNext ==
    \/ \E m \in {"get_all_systems", "get_all_zones"}, f \in BOOLEAN, st \in Statuses :
          SyncRead(m, <<Absent, Absent>>, f, st)
    \/ \E s \in {k[1] : k \in DevZones}, f \in BOOLEAN, st \in Statuses :
          SyncRead("get_system", <<s, Absent>>, f, st)
    \/ \E k \in DevZones, f \in BOOLEAN, st \in Statuses : SyncRead("get_zone", k, f, st)
    \/ \E k \in DevZones, v \in Setpoints, st \in Statuses : SyncWrite(k, v, st)

SpecSync == SyncInit /\ [][SyncNext]_vars

AssignIgnored(name, value, get_status) ==
    /\ name = scenario.setter
    /\ name \in Setters(impl)
    /\ value \in SetterValues(name)
    /\ Assigned(name, value, OK, get_status, dev_zone,
                ZoneSetter(impl, use_cache, files, max_age, now, TheSystem, TheZone,
                           zone_data, name, value, Answer(OK, EmptyDict),
                           Answer(get_status, ZoneResponse(scenario.shape, dev_zone))))

ClampNext ==
    \/ \E value \in SetterValues(scenario.setter), ps \in Statuses, gs \in RereadStatuses :
          AssignAttr(scenario.setter, value, ps, gs)
    \/ \E value \in SetterValues(scenario.setter), gs \in RereadStatuses :
          AssignIgnored(scenario.setter, value, gs)
    \/ \E f \in BOOLEAN, st \in Statuses : Refresh(f, st)

SpecClamp == ZoneInit /\ [][ClampNext]_vars

\* the attributes whose setters of airzone_client.py store the value after
\* the refresh
PatchedAfterRefresh == {"setpoint", "sleep_timer", "fan_speed", "slats_vertical", "slats_horizontal", "vertical_swing", "horizontal_swing"}

\* C25: with the classes of airzone_client.py, after a setter for setpoint,
\* sleep timer, fan speed, slats or swing completed, the field of the local
\* snapshot equals the value the device reported in the forced re-read.
C25_SnapshotShowsDevice ==
    (/\ impl = "flat"
     /\ assign.name \in PatchedAfterRefresh
     /\ outcome = Returned(None)
     /\ Len(http) = 2
     /\ scenario.shape \in {"list", "dict"})
    => LocalField(zone_data, assign.name)
          = DataGet(JsonObject(dev_zone), WireField(impl, assign.name), NullValue)

(***************************************************************************)
(* SpecSystem: one AirzoneSystem of either module, its zones loaded and    *)
(* its accessors read.  `device` is the document the device answers        *)
(* get_all_zones with; `reread` keeps the document load_zones was given.   *)
(***************************************************************************)
SystemInit ==
    /\ files = NoFiles
    /\ now = 0
    /\ max_age = MaxAge
    /\ cop = NoCacheOp
    /\ written = NoWritten
    /\ KeyIdle
    /\ impl \in {"client", "flat"}
    /\ use_cache \in BOOLEAN
    /\ device \in {DictOf(<<Item("systems", a)>>) : a \in Aggregates} \cup {EmptyDict}
    /\ family = "hvac"
    /\ call = NoCall
    /\ http = <<>>
    /\ answer = NoAnswer
    /\ before = NoBefore
    /\ outcome = NoOutcome
    /\ scenario = NoScenario
    /\ dev_zone = BareZone
    /\ zone_data = JsonObject(<<>>)
    /\ assign = NoAssign
    /\ reread = NoAnswer
    /\ system \in {NewSystem(1), NewSystem(2)}
    /\ found = NoZone
    /\ exit_code = 0
    /\ backup = NoBackup
    /\ host = NoHost

\* what a method or accessor of the System leaves behind; read is the
\* get_all_zones call it made, if it made one
SystemDone(op, force_refresh, loaded, res, read) ==
    /\ files' = res.files
    /\ http' = res.http
    /\ outcome' = res.outcome
    /\ system' = [system EXCEPT !.zones = res.zones]
    /\ reread' = IF loaded /\ read.outcome.kind = "returned" THEN Answer(OK, read.outcome.doc)
                 ELSE NoAnswer
    /\ call' = CliCall(op, system.system_id, Absent, force_refresh)
    /\ UNCHANGED <<now, max_age, cop, written, keyVars, impl, use_cache, device, family, answer,
                   before, scenario, dev_zone, zone_data, assign, found, exit_code, backup, host>>

\* system.load_zones(force_refresh)
SystemLoadZones(force_refresh, status) ==
    SystemDone("System.load_zones", force_refresh, TRUE,
               load_zones(impl, use_cache, files, max_age, now, system, force_refresh,
                          Answer(status, device)),
               ReadCall(impl, use_cache, files, max_age, now, "get_all_zones", AllZones,
                        AllZones, Absent, force_refresh, Answer(status, device)))

\* system.all_zones: if not self.zones: self.load_zones(); return self.zones
SystemAllZones(status) ==
    SystemDone("System.all_zones", FALSE, system.zones = <<>>,
               IF system.zones = <<>>
               THEN load_zones(impl, use_cache, files, max_age, now, system, FALSE,
                               Answer(status, device))
               ELSE SystemResult(files, <<>>, Returned(None), system.zones),
               ReadCall(impl, use_cache, files, max_age, now, "get_all_zones", AllZones,
                        AllZones, Absent, FALSE, Answer(status, device)))

\* system.name, zone.name and the other accessors that return a field of
\* self._data or a default
ReadAccessor(op) ==
    /\ op = "Zone.name" => system.zones # <<>>
    /\ SystemDone(op, FALSE, FALSE, SystemResult(files, <<>>, Returned(None), system.zones),
                  Result(files, <<>>, Returned(None)))

SystemNext ==
    \/ \E f \in BOOLEAN, st \in Statuses : SystemLoadZones(f, st)
    \/ \E st \in Statuses : SystemAllZones(st)
    \/ \E op \in {"System.name", "Zone.name"} : ReadAccessor(op)
    \/ Tick

SpecSystem == SystemInit /\ [][SystemNext]_vars

\* C26: reading an accessor of a System or Zone sends no HTTP request and
\* changes neither the snapshot, the system's zone table, nor the cache.
C26_AccessorsArePure ==
    [][call'.op \in {"System.all_zones", "System.name", "Zone.name"}
       => /\ http' = <<>>
          /\ system' = system
          /\ zone_data' = zone_data
          /\ files' = files]_vars

\* the zones of an aggregate, entry by entry
RECURSIVE ListedZones(_)
ListedZones(systems) ==
    IF systems = <<>> THEN <<>>
    ELSE (IF "data" \in DOMAIN Head(systems).fields THEN Head(systems).fields["data"].elems
          ELSE <<>>) \o ListedZones(Tail(systems))

\* the zone's ID, from the id or the zoneID field
ListedId(row) == DataGet(row, "id", DataGet(row, "zoneID", NullValue))

\* the zones the last load_zones was given
Given == IF HasKey(reread.doc, "systems") THEN ListedZones(DocGet(reread.doc, "systems").elems) ELSE <<>>

\* C27: after load_zones the zone table has an entry for every zone of the
\* aggregate whose systemID is the system's, under the zone's ID from id or
\* zoneID; every entry has the system's ID and its key as zone ID, and no
\* zone of another system is in the table.
C27_ZonesPartitioned ==
    (call.op = "System.load_zones" /\ outcome.kind = "returned") =>
        /\ \A n \in 1..Len(Given) :
              (/\ DataGet(Given[n], "systemID", NullValue) = IntVal(system.system_id)
               /\ ListedId(Given[n]) # NullValue)
              => ListedId(Given[n]).i \in DOMAIN system.zones
        /\ \A k \in DOMAIN system.zones :
              /\ system.zones[k].system_id = system.system_id
              /\ system.zones[k].zone_id = k
              /\ DataGet(system.zones[k].data, "systemID", NullValue) = IntVal(system.system_id)
              /\ ListedId(system.zones[k].data) = IntVal(k)

\* load_zones was given zones of two systems, one under id, and kept its own
C27_Witness ==
    /\ call.op = "System.load_zones"
    /\ outcome.kind = "returned"
    /\ system.system_id = 1
    /\ DOMAIN system.zones = {2}
    /\ Len(Given) = 2
    /\ \E n \in 1..2 : DataGet(Given[n], "systemID", NullValue) = IntVal(2)

(***************************************************************************)
(* SpecHosts: two clients of the same module, one per device, made with    *)
(* AirzoneClient(host=...) in one user account.  Neither passes a          *)
(* cache_dir, so both AirzoneCache objects work on ~/.airzone_cache, which *)
(* is `files`.  `host` is the client that made the last call.  Each device *)
(* answers with a document that names it.                                  *)
(***************************************************************************)
Hosts == {"test-host", "other-host"}

\* what the device at h answers a read with
DeviceOf(h) == DictOf(<<Item("name", StrVal(h))>>)

HostMethods == {"get_version", "get_all_systems"}

HostsInit ==
    /\ files = NoFiles
    /\ now = 0
    /\ max_age = MaxAge
    /\ cop = NoCacheOp
    /\ written = NoWritten
    /\ KeyIdle
    /\ impl \in {"client", "flat"}
    /\ use_cache \in BOOLEAN
    /\ device = EmptyDict
    /\ family = "info"
    /\ call = NoCall
    /\ http = <<>>
    /\ answer = NoAnswer
    /\ before = NoBefore
    /\ outcome = NoOutcome
    /\ EntityIdle

\* what a call of the client of host h leaves behind
HostDone(h, op, r, force_refresh, res, ans) ==
    /\ files' = res.files
    /\ http' = res.http
    /\ outcome' = res.outcome
    /\ answer' = IF res.http = <<>> THEN NoAnswer ELSE ans
    /\ call' = [op |-> op, request |-> r, force_refresh |-> force_refresh]
    /\ host' = h
    /\ UNCHANGED <<now, max_age, cop, written, keyVars, impl, use_cache, device, family, before,
                   scenario, dev_zone, zone_data, assign, reread, system, found, exit_code,
                   backup>>

\* a read method of the client of host h
HostRead(h, method, force_refresh, status) ==
    HostDone(h, method, ReadRequest(method, Absent, Absent, Absent), force_refresh,
             ReadCall(impl, use_cache, files, max_age, now, method, Absent, Absent, Absent,
                      force_refresh, Answer(status, DeviceOf(h))),
             Answer(status, DeviceOf(h)))

\* src/src/client.py AirzoneClient.clear_cache: if self.cache:
\* self.cache.clear(); AirzoneCache defines get, set, invalidate and
\* invalidate_all, and no clear
clear_cache(uc, fs) ==
    IF uc THEN Result(fs, <<>>, PyError("AttributeError")) ELSE Result(fs, <<>>, Returned(None))

\* src/src/client.py AirzoneClient.invalidate_cache(key=None)
invalidate_cache(uc, fs) ==
    IF uc THEN Result(CacheInvalidateAllFiles(fs), <<>>, Returned(None))
    ELSE Result(fs, <<>>, Returned(None))

\* client.clear_cache() on the client of host h
ClearCache(h) ==
    /\ impl = "client"
    /\ HostDone(h, "clear_cache", NoRequest, FALSE, clear_cache(use_cache, files), NoAnswer)

\* client.invalidate_cache() on the client of host h
InvalidateCache(h) ==
    /\ impl = "client"
    /\ HostDone(h, "invalidate_cache", NoRequest, FALSE, invalidate_cache(use_cache, files),
                NoAnswer)

HostsNext ==
    \/ \E h \in Hosts, m \in HostMethods, f \in BOOLEAN, st \in Statuses : HostRead(h, m, f, st)
    \/ \E h \in Hosts : ClearCache(h)
    \/ \E h \in Hosts : InvalidateCache(h)
    \/ Tick

SpecHosts == HostsInit /\ [][HostsNext]_vars

\* C28: clear_cache on a cache-enabled client completes without raising and
\* leaves every previously cached key absent; on a cache-disabled client it
\* does nothing.
C28_ClearCacheClears ==
    [][call'.op = "clear_cache"
       => /\ outcome' = Returned(None)
          /\ http' = <<>>
          /\ use_cache => \A p \in DOMAIN files : p \notin DOMAIN files'
          /\ ~use_cache => files' = files]_vars

\* C29: a read through the client of one device never returns a document
\* fetched from the other device.
C29_ReadsOwnDevice ==
    (call.op \in HostMethods /\ outcome.kind = "returned") => outcome.doc = DeviceOf(host)

====
